---- MODULE Spec2Model ----
(***************************************************************************)
(* Voice-notes application: the dictation session managers of the         *)
(* recorder variants, the spoken-number normalizers and the notes store.  *)
(*                                                                         *)
(* Text is a sequence of one-character strings, so that trimming, case    *)
(* folding, concatenation and the regular-expression replacement of       *)
(* normalizeNumbers are computed character by character.                  *)
(*                                                                         *)
(* One click or one browser callback is one action: the handler, the      *)
(* re-render it causes and the effect cleanups/bodies React runs for the  *)
(* changed dependencies.  Debug logging (addDebugLog) carries no control  *)
(* state and is left out.                                                 *)
(***************************************************************************)
EXTENDS Integers, Sequences, FiniteSets, Bags, TLC

----------------------------------------------------------------------------
(* Text primitives (JavaScript String)                                     *)

LowerLetters ==
  { "a","b","c","d","e","f","g","h","i","j","k","l","m",
    "n","o","p","q","r","s","t","u","v","w","x","y","z" }

UpperToLower ==
  [ A |-> "a", B |-> "b", C |-> "c", D |-> "d", E |-> "e", F |-> "f", G |-> "g",
    H |-> "h", I |-> "i", J |-> "j", K |-> "k", L |-> "l", M |-> "m", N |-> "n",
    O |-> "o", P |-> "p", Q |-> "q", R |-> "r", S |-> "s", T |-> "t", U |-> "u",
    V |-> "v", W |-> "w", X |-> "x", Y |-> "y", Z |-> "z" ]

Digits == { "0","1","2","3","4","5","6","7","8","9" }

\* \w of the regular expressions: [A-Za-z0-9_]
IsWordChar(c) == c \in LowerLetters \cup DOMAIN UpperToLower \cup Digits \cup {"_"}

\* \s of the regular expressions, and the characters String.trim removes
IsSpace(c) == c \in {" ", "\t", "\n"}

\* String.prototype.toLowerCase
toLowerCase(s) ==
  [k \in 1..Len(s) |-> IF s[k] \in DOMAIN UpperToLower THEN UpperToLower[s[k]] ELSE s[k]]

\* String.prototype.trim
trim(s) ==
  LET keep == {k \in 1..Len(s) : ~IsSpace(s[k])}
  IN  IF keep = {} THEN <<>>
      ELSE LET lo == CHOOSE k \in keep : \A m \in keep : k <= m
               hi == CHOOSE k \in keep : \A m \in keep : k >= m
           IN  SubSeq(s, lo, hi)

\* \b at the position in front of character k (k = Len(s)+1: the end)
WordBoundary(s, k) ==
  LET before == k > 1 /\ IsWordChar(s[k-1])
      after  == k <= Len(s) /\ IsWordChar(s[k])
  IN  before # after

----------------------------------------------------------------------------
(* Lookup tables of normalizeNumbers, as sets of <<word, digits>>          *)

English0to10 ==
  { <<<<"z","e","r","o">>, <<"0">>>>, <<<<"o","n","e">>, <<"1">>>>, <<<<"t","w","o">>, <<"2">>>>, 
    <<<<"t","h","r","e","e">>, <<"3">>>>, <<<<"f","o","u","r">>, <<"4">>>>, 
    <<<<"f","i","v","e">>, <<"5">>>>, <<<<"s","i","x">>, <<"6">>>>, 
    <<<<"s","e","v","e","n">>, <<"7">>>>, <<<<"e","i","g","h","t">>, <<"8">>>>, 
    <<<<"n","i","n","e">>, <<"9">>>>, <<<<"t","e","n">>, <<"1","0">>>> }

English11to13 ==
  { <<<<"e","l","e","v","e","n">>, <<"1","1">>>>, <<<<"t","w","e","l","v","e">>, <<"1","2">>>>, 
    <<<<"t","h","i","r","t","e","e","n">>, <<"1","3">>>> }

Filipino1to10 ==
  { <<<<"i","s","a">>, <<"1">>>>, <<<<"d","a","l","a","w","a">>, <<"2">>>>, 
    <<<<"t","a","t","l","o">>, <<"3">>>>, <<<<"a","p","a","t">>, <<"4">>>>, 
    <<<<"l","i","m","a">>, <<"5">>>>, <<<<"a","n","i","m">>, <<"6">>>>, 
    <<<<"p","i","t","o">>, <<"7">>>>, <<<<"w","a","l","o">>, <<"8">>>>, 
    <<<<"s","i","y","a","m">>, <<"9">>>>, <<<<"s","a","m","p","u">>, <<"1","0">>>> }

Filipino11to12 ==
  { <<<<"l","a","b","i","n","g","-","i","s","a">>, <<"1","1">>>>, 
    <<<<"l","a","b","i","n","d","a","l","a","w","a">>, <<"1","2">>>> }

Filipino13 ==
  { <<<<"l","a","b","i","n","t","a","t","l","o">>, <<"1","3">>>> }

Filipino14 ==
  { <<<<"l","a","b","i","n","g","-","a","p","a","t">>, <<"1","4">>>> }

\* Properties every object literal inherits whose names are lower-case words;
\* the value is what String.replace makes of the inherited object.
ObjectPrototype ==
  { <<<<"c","o","n","s","t","r","u","c","t","o","r">>,
      <<"f","u","n","c","t","i","o","n"," ","O","b","j","e","c","t","(",")"," ","{"," ","[","n","a","t","i","v","e"," ","c","o","d","e","]"," ","}">>>>,
    <<<<"_","_","p","r","o","t","o","_","_">>,
      <<"[","o","b","j","e","c","t"," ","O","b","j","e","c","t","]">>>> }

map_P3 == English0to10 \cup English11to13 \cup Filipino1to10 \cup Filipino11to12
            \cup Filipino13 \cup Filipino14

map_TU == English0to10 \cup English11to13 \cup Filipino1to10 \cup Filipino11to12
            \cup Filipino13

numberMap_P1 == English0to10 \cup Filipino1to10 \cup Filipino11to12

map_V3 == English0to10 \cup Filipino1to10 \cup Filipino11to12 \cup Filipino13

\* table[key] || fallback, for an object literal `table`
LookupOr(table, key, fallback) ==
  LET own == table \cup ObjectPrototype
  IN  IF \E p \in own : p[1] = key
        THEN (CHOOSE p \in own : p[1] = key)[2]
        ELSE fallback

----------------------------------------------------------------------------
(* normalizeNumbers: String.replace with a global regular expression       *)

InPhraseClass(c) == IsWordChar(c) \/ c = "-" \/ IsSpace(c)

\* .replace(/[^\w\s-]/g, '')
StripPunctuation(s) == SelectSeq(s, InPhraseClass)

Max(S) == CHOOSE x \in S : \A y \in S : x >= y
Min(S) == CHOOSE x \in S : \A y \in S : x <= y

\* /\b[\w-]+(?:\s+[\w-]+)*\b/ tried at position i: the last position of the
\* match, 0 when there is none.  The greedy quantifiers give back characters
\* from the right, so the first match found is the longest one.
PhraseMatchEnd(s, i) ==
  LET ends == { e \in i..Len(s) :
                  /\ \A k \in i..e : InPhraseClass(s[k])
                  /\ ~IsSpace(s[e])
                  /\ WordBoundary(s, e + 1) }
  IN  IF WordBoundary(s, i) /\ ~IsSpace(s[i]) /\ InPhraseClass(s[i]) /\ ends # {}
        THEN Max(ends) ELSE 0

\* /\b(\w+(?:-\w+)?)\b/ tried at position i
WordMatchEnd(s, i) ==
  LET RunEnd(j) == Max({ e \in j..Len(s) : \A k \in j..e : IsWordChar(s[k]) })
  IN  IF WordBoundary(s, i) /\ IsWordChar(s[i])
        THEN LET j == RunEnd(i)
             IN  IF j + 2 <= Len(s) /\ s[j+1] = "-" /\ IsWordChar(s[j+2])
                   THEN RunEnd(j + 2) ELSE j
        ELSE 0

\* /\b[\w\s-]+?\b/ tried at position i: the lazy quantifier stops at the
\* first word boundary
LazyMatchEnd(s, i) ==
  LET ends == { e \in i..Len(s) :
                  /\ \A k \in i..e : InPhraseClass(s[k])
                  /\ WordBoundary(s, e + 1) }
  IN  IF WordBoundary(s, i) /\ InPhraseClass(s[i]) /\ ends # {}
        THEN Min(ends) ELSE 0

RECURSIVE ReplacePhrases_P3(_, _)
ReplacePhrases_P3(s, i) ==
  IF i > Len(s) THEN <<>>
  ELSE LET e == PhraseMatchEnd(s, i)
       IN  IF e = 0 THEN <<s[i]>> \o ReplacePhrases_P3(s, i + 1)
           ELSE LET phrase  == SubSeq(s, i, e)
                    cleaned == StripPunctuation(toLowerCase(trim(phrase)))
                IN  LookupOr(map_P3, cleaned, phrase) \o ReplacePhrases_P3(s, e + 1)

\* normalizeNumbers of the chunked recorder with local storage
normalizeNumbers_P3(text) == ReplacePhrases_P3(toLowerCase(text), 1)

RECURSIVE ReplacePhrases_TU(_, _)
ReplacePhrases_TU(s, i) ==
  IF i > Len(s) THEN <<>>
  ELSE LET e == PhraseMatchEnd(s, i)
       IN  IF e = 0 THEN <<s[i]>> \o ReplacePhrases_TU(s, i + 1)
           ELSE LET phrase  == SubSeq(s, i, e)
                    cleaned == trim(StripPunctuation(toLowerCase(phrase)))
                IN  LookupOr(map_TU, cleaned, phrase) \o ReplacePhrases_TU(s, e + 1)

\* normalizeNumbers of utils/textUtils
normalizeNumbers_TU(text) == ReplacePhrases_TU(toLowerCase(text), 1)

RECURSIVE ReplaceWords_P1(_, _)
ReplaceWords_P1(s, i) ==
  IF i > Len(s) THEN <<>>
  ELSE LET e == WordMatchEnd(s, i)
       IN  IF e = 0 THEN <<s[i]>> \o ReplaceWords_P1(s, i + 1)
           ELSE LET word == SubSeq(s, i, e)
                IN  LookupOr(numberMap_P1, word, word) \o ReplaceWords_P1(s, e + 1)

\* normalizeNumbers of the continuous recorder
normalizeNumbers_P1(text) == ReplaceWords_P1(toLowerCase(text), 1)

RECURSIVE ReplaceLazy_V3(_, _)
ReplaceLazy_V3(s, i) ==
  IF i > Len(s) THEN <<>>
  ELSE LET e == LazyMatchEnd(s, i)
       IN  IF e = 0 THEN <<s[i]>> \o ReplaceLazy_V3(s, i + 1)
           ELSE LET word == SubSeq(s, i, e)
                    w    == toLowerCase(trim(word))
                IN  LookupOr(map_V3, w, word) \o ReplaceLazy_V3(s, e + 1)

\* normalizeNumbers of the language-dependent chunked recorder
normalizeNumbers_V3(text) == ReplaceLazy_V3(toLowerCase(text), 1)

----------------------------------------------------------------------------
(* JSON.stringify and JSON.parse on character sequences                    *)

\* a JSON value: [t |-> "str", s |-> characters], [t |-> "lit", s |-> the
\* literal], [t |-> "num", s |-> digits], [t |-> "arr", items |-> values],
\* [t |-> "obj", keys |-> names, vals |-> values]
JStr(s) == [t |-> "str", s |-> s]

\* a bug JSON.stringify could have: the characters are written unescaped
Quote_Raw(s) == s

RECURSIVE Quote(_)
\* the characters of a string between the quotes JSON.stringify writes
Quote(s) ==
  IF s = <<>> THEN <<>>
  ELSE (CASE Head(s) = "\"" -> << "\\", "\"" >>
          [] Head(s) = "\\" -> << "\\", "\\" >>
          [] Head(s) = "\n" -> << "\\", "n" >>
          [] Head(s) = "\t" -> << "\\", "t" >>
          [] OTHER -> << Head(s) >>) \o Quote(Tail(s))

RECURSIVE JoinWith(_, _)
\* Array.prototype.join on character sequences
JoinWith(parts, sep) ==
  IF parts = <<>> THEN <<>>
  ELSE IF Len(parts) = 1 THEN parts[1]
  ELSE parts[1] \o sep \o JoinWith(Tail(parts), sep)

RECURSIVE Stringify(_)
\* JSON.stringify(value)
Stringify(v) ==
  CASE v.t = "str" -> << "\"" >> \o Quote(v.s) \o << "\"" >>
    [] v.t \in {"lit", "num"} -> v.s
    [] v.t = "arr" ->
         << "[" >> \o JoinWith([k \in 1..Len(v.items) |-> Stringify(v.items[k])], << "," >>)
           \o << "]" >>
    [] v.t = "obj" ->
         << "{" >> \o JoinWith([k \in 1..Len(v.keys) |->
                                 Stringify(JStr(v.keys[k])) \o << ":" >> \o Stringify(v.vals[k])],
                               << "," >>)
           \o << "}" >>

\* the result of a failed parse: JSON.parse throws SyntaxError
NoParse == [ok |-> FALSE, next |-> 0]

RECURSIVE SkipWs(_, _)
\* the first position from i on that holds no JSON whitespace
SkipWs(s, i) == IF i <= Len(s) /\ IsSpace(s[i]) THEN SkipWs(s, i + 1) ELSE i

RECURSIVE ParseChars(_, _, _)
\* the characters of a string literal from position i on, after the opening
\* quote; acc holds the characters read so far
ParseChars(s, i, acc) ==
  IF i > Len(s) \/ s[i] \in {"\n", "\t"} THEN NoParse
  ELSE IF s[i] = "\"" THEN [ok |-> TRUE, val |-> JStr(acc), next |-> i + 1]
  ELSE IF s[i] = "\\"
    THEN IF i + 1 > Len(s) THEN NoParse
         ELSE CASE s[i+1] = "\"" -> ParseChars(s, i + 2, Append(acc, "\""))
                [] s[i+1] = "\\" -> ParseChars(s, i + 2, Append(acc, "\\"))
                [] s[i+1] = "/"  -> ParseChars(s, i + 2, Append(acc, "/"))
                [] s[i+1] = "n"  -> ParseChars(s, i + 2, Append(acc, "\n"))
                [] s[i+1] = "t"  -> ParseChars(s, i + 2, Append(acc, "\t"))
                [] OTHER -> NoParse
  ELSE ParseChars(s, i + 1, Append(acc, s[i]))

RECURSIVE ParseDigits(_, _, _)
\* an unsigned integer from position i on
ParseDigits(s, i, acc) ==
  IF i <= Len(s) /\ s[i] \in Digits THEN ParseDigits(s, i + 1, Append(acc, s[i]))
  ELSE IF acc = <<>> \/ (Len(acc) > 1 /\ acc[1] = "0") THEN NoParse
  ELSE [ok |-> TRUE, val |-> [t |-> "num", s |-> acc], next |-> i]

\* the literal lit at position i
ParseLiteral(s, i, lit) ==
  IF i + Len(lit) - 1 <= Len(s) /\ SubSeq(s, i, i + Len(lit) - 1) = lit
    THEN [ok |-> TRUE, val |-> [t |-> "lit", s |-> lit], next |-> i + Len(lit)]
    ELSE NoParse

RECURSIVE ParseValue(_, _)
RECURSIVE ParseItems(_, _, _)
RECURSIVE ParseMembers(_, _, _, _)

\* the elements of an array from position i on, after "[" or ","
ParseItems(s, i, acc) ==
  LET r == ParseValue(s, i)
      j == SkipWs(s, r.next)
  IN  IF ~r.ok \/ j > Len(s) THEN NoParse
      ELSE IF s[j] = "," THEN ParseItems(s, j + 1, Append(acc, r.val))
      ELSE IF s[j] = "]"
        THEN [ok |-> TRUE, val |-> [t |-> "arr", items |-> Append(acc, r.val)], next |-> j + 1]
      ELSE NoParse

\* the members of an object from position i on, after "{" or ","
ParseMembers(s, i, ks, vs) ==
  LET a == SkipWs(s, i)
      k == IF a <= Len(s) /\ s[a] = "\"" THEN ParseChars(s, a + 1, <<>>) ELSE NoParse
      c == IF k.ok THEN SkipWs(s, k.next) ELSE 0
      r == IF k.ok /\ c <= Len(s) /\ s[c] = ":" THEN ParseValue(s, c + 1) ELSE NoParse
      j == SkipWs(s, r.next)
  IN  IF ~r.ok \/ j > Len(s) THEN NoParse
      ELSE IF s[j] = "," THEN ParseMembers(s, j + 1, Append(ks, k.val.s), Append(vs, r.val))
      ELSE IF s[j] = "}"
        THEN [ok |-> TRUE,
              val |-> [t |-> "obj", keys |-> Append(ks, k.val.s), vals |-> Append(vs, r.val)],
              next |-> j + 1]
      ELSE NoParse

\* a JSON value from position i on
ParseValue(s, i) ==
  LET a == SkipWs(s, i)
  IN  IF a > Len(s) THEN NoParse
      ELSE CASE s[a] = "\"" -> ParseChars(s, a + 1, <<>>)
             [] s[a] = "[" ->
                  LET b == SkipWs(s, a + 1)
                  IN  IF b <= Len(s) /\ s[b] = "]"
                        THEN [ok |-> TRUE, val |-> [t |-> "arr", items |-> <<>>], next |-> b + 1]
                        ELSE ParseItems(s, a + 1, <<>>)
             [] s[a] = "{" ->
                  LET b == SkipWs(s, a + 1)
                  IN  IF b <= Len(s) /\ s[b] = "}"
                        THEN [ok |-> TRUE, val |-> [t |-> "obj", keys |-> <<>>, vals |-> <<>>],
                              next |-> b + 1]
                        ELSE ParseMembers(s, a + 1, <<>>, <<>>)
             [] s[a] = "n" -> ParseLiteral(s, a, << "n", "u", "l", "l" >>)
             [] s[a] = "t" -> ParseLiteral(s, a, << "t", "r", "u", "e" >>)
             [] s[a] = "f" -> ParseLiteral(s, a, << "f", "a", "l", "s", "e" >>)
             [] s[a] \in Digits -> ParseDigits(s, a, <<>>)
             [] OTHER -> NoParse

\* JSON.parse(text): ok is FALSE when it throws SyntaxError
JSONparse(s) ==
  LET r == ParseValue(s, 1)
  IN  IF r.ok /\ SkipWs(s, r.next) > Len(s) THEN [ok |-> TRUE, val |-> r.val]
      ELSE [ok |-> FALSE, val |-> JStr(<<>>)]

----------------------------------------------------------------------------
(* Bounds                                                                  *)

\* SpeechRecognition objects constructed in one behaviour
MaxInst == 3
\* clicks on Start Recording in one behaviour
MaxStarts == 2
\* result events delivered in one behaviour
MaxResults == 2
\* clicks on Save Note in one behaviour
MaxNotes == 1
\* timers (or promises) of one kind that may be pending at once
MaxPending == 2

\* the same four bounds of the specifications of a single recorder
FewStarts == 1
FewResults == 2
FewNotes == 1
FewPending == 1

\* notes added by direct calls of the store
StoreNotes == 3

----------------------------------------------------------------------------
(* The recorder variants                                                   *)
(*   "P3"  chunked recorder with local storage     src/unnamed/part_003   *)
(*   "P1"  continuous recorder                     src/unnamed/part_001   *)
(*   "V3"  language-dependent chunked recorder     src/unnamed/part_000   *)
(*   "V2"  mic-test debug recorder                 src/unnamed/part_000   *)
(*   "App" Android debug recorder                  my-react-app/src/App.jsx *)
(*   "NL"  chunked recorder of the component tree  .../NotesList.jsx      *)
(*   "V1"  MediaRecorder recorder                  src/unnamed/part_000   *)

Variants == {"P3", "P1", "V3", "V2", "App", "NL", "V1"}

\* recognition.continuous as each variant configures it (language en-US)
Continuous(v) == v \in {"P1", "V2", "App", "V1"}

VARIABLES
  variant,            \* which Recorder component is mounted
  supported,          \* window.SpeechRecognition || window.webkitSpeechRecognition exists
  language,           \* useState('en-US')
  isIOS,              \* useState(false), set by the mount effect from the user agent
  showFilipinoWarning,\* useState(false)
  isRecording,        \* useState(false)
  transcript,         \* useState('')
  interimTranscript,  \* useState('')
  finalTranscript,    \* useState('')  (NL only)
  interpretedTranscription, \* useState('') (V1 only)
  error,              \* useState('')
  recognitionRef,     \* useRef(null): 0 is null, otherwise a recognition object
  mediaRecorderRef,   \* useRef(null) (V1 only): 0 is null, otherwise a MediaRecorder
  streams,            \* V1: the MediaStreams getUserMedia returned, each with its MediaRecorder
  isStoppedManually,  \* useRef(false)
  timeoutRef,         \* chunkTimeoutRef / timeoutRef / restartTimeoutRef: 0 is null
  forceStopTimeoutRef,\* useRef(null) (P3 only)
  hasStartedSuccessfully, \* useRef(false) (V2 only)
  startAttempts,      \* useRef(0) (P1 only)
  recs,               \* the SpeechRecognition objects constructed so far
  timers,             \* bag of pending timers and promise continuations
  notes,              \* the notes collection, newest first
  noteSeq,            \* number of Note ids handed out
  quota,              \* what the environment may still do (see InitOf)
  heard,              \* NL: final fragments delivered since the last startRecording
  stopRequested,      \* stopRecording was called and startRecording not since
  storage,            \* localStorage: the item stored under 'voiceNotes'
  crashed,            \* an exception left the component tree unmounted
  normText,           \* the text normalizeNumbers is applied to
  normOut             \* the results of its successive applications

vars == << variant, supported, interpretedTranscription, streams, mediaRecorderRef, language, isIOS, showFilipinoWarning, isRecording, transcript, interimTranscript,
           finalTranscript, error, recognitionRef, isStoppedManually, timeoutRef,
           forceStopTimeoutRef, hasStartedSuccessfully, startAttempts, recs,
           timers, notes, noteSeq, quota, heard, stopRequested, storage, crashed,
           normText, normOut >>

Insts == 1..MaxInst

\* Life cycle of a SpeechRecognition object:
\*   "none"      not constructed
\*   "new"       constructed, start() not called
\*   "starting"  start() called, start event not yet delivered
\*   "listening" capturing audio
\*   "stopping"  stop() called while listening: results may still arrive, then end
\*   "ending"    an error or the last result was delivered: end is pending
\*   "ended"     end delivered; start() may be called again
RecStates == {"none", "new", "starting", "listening", "stopping", "ending", "ended"}

\* capRec is the value of isRecording in the render whose closure created the
\* object's handlers
NoRec == [st |-> "none", capRec |-> FALSE]

Started(r) == r.st \in {"starting", "listening", "stopping", "ending"}
Listening(r) == r.st \in {"starting", "listening"}

\* recognition.stop(): the recognizer returns what it has heard so far, which
\* is nothing before its start event; ignored unless the object was started
AfterStop(r) ==
  CASE r.st = "listening" -> [r EXCEPT !.st = "stopping"]
    [] r.st = "starting"  -> [r EXCEPT !.st = "ending"]
    [] OTHER -> r

\* recognition.start() throws InvalidStateError ("already started") on a
\* started object
StartThrows(r) == Started(r)
AfterStart(r) == [r EXCEPT !.st = "starting"]

\* the object the next `new SpeechRecognition()` yields; 0 when the bound
\* MaxInst is exhausted
FreshInst ==
  LET free == {i \in Insts : recs[i].st = "none"}
  IN  IF free = {} THEN 0 ELSE Min(free)

\* setTimeout / clearTimeout on the bag of pending continuations
Timer(kind, i) == [kind |-> kind, inst |-> i]
SetTimer(bag, t) == bag (+) SetToBag({t})
DropTimer(bag, t) == bag (-) SetToBag({t})
ClearTimeout(bag, kind, ref) ==
  IF ref # 0 /\ BagIn(Timer(kind, ref), bag) THEN DropTimer(bag, Timer(kind, ref)) ELSE bag

----------------------------------------------------------------------------
(* Result events                                                           *)

Res(f, t) == [isFinal |-> f, transcript |-> t]

\* event.results from event.resultIndex on
InterimEvents == { << Res(FALSE, <<"h","e","l">>) >> }

FinalEvents ==
  { << Res(TRUE, <<"h","e","l","l","o"," ">>) >>,
    << Res(TRUE, <<"T","w","o">>) >> }

\* a continuous recognizer also reports a finished phrase together with the
\* beginning of the next one
MixedEvents == { << Res(TRUE, <<"o","n","e">>), Res(FALSE, <<"h","e","l">>) >> }

ResultEvents(v) ==
  InterimEvents \cup FinalEvents \cup (IF Continuous(v) THEN MixedEvents ELSE {})

HasFinal(ev) == \E k \in 1..Len(ev) : ev[k].isFinal

RECURSIVE ConcatWhere(_, _, _)
\* the loop of onresult: concatenate the transcripts of the results whose
\* isFinal equals f, each followed by sep
ConcatWhere(ev, f, sep) ==
  IF ev = <<>> THEN <<>>
  ELSE (IF Head(ev).isFinal = f THEN Head(ev).transcript \o sep ELSE <<>>)
         \o ConcatWhere(Tail(ev), f, sep)

\* the recognition object after it delivered the event: a recognizer that is
\* not continuous, or one that was told to stop, ends after its final result
AfterResult(v, r, ev) ==
  IF HasFinal(ev) /\ (~Continuous(v) \/ r.st = "stopping")
    THEN [r EXCEPT !.st = "ending"] ELSE r

\* event.error of the error events the recognizer delivers
ErrorClasses ==
  {"no-speech", "not-allowed", "permission-denied", "audio-capture", "network",
   "service-not-allowed"}

----------------------------------------------------------------------------
(* Notes store (useLocalNotes)                                             *)

\* a bug deleteNote could have: the newest note is removed whatever the id
deleteNote_Newest(ns, id) == IF ns = <<>> THEN ns ELSE Tail(ns)

\* deleteNote: prev.filter(n => n.id !== id)
deleteNote(ns, id) == SelectSeq(ns, LAMBDA n : n.id # id)

\* a bug addNote could have: the note is put at the end
addNote_AtEnd(ns, seq, text) ==
  ns \o << [id |-> seq + 1, text |-> trim(text), createdAt |-> seq + 1] >>

\* addNote: the id and the creation time are drawn from the clock, here the
\* count of notes created so far
addNote(ns, seq, text) ==
  << [id |-> seq + 1, text |-> trim(text), createdAt |-> seq + 1] >> \o ns

\* clearAllNotes: setNotes([])
clearAllNotes(ns) == <<>>

\* the variants whose hook keeps the notes in localStorage
Persisted(v) == v \in {"P3", "NL"}

DigitChars == << "0", "1", "2", "3", "4", "5", "6", "7", "8", "9" >>

RECURSIVE IntToChars(_)
\* the decimal digits of a natural number
IntToChars(n) ==
  IF n < 10 THEN << DigitChars[n + 1] >>
  ELSE IntToChars(n \div 10) \o << DigitChars[(n % 10) + 1] >>

RECURSIVE CharsToInt(_)
\* the natural number written with the digits s
CharsToInt(s) ==
  IF s = <<>> THEN 0
  ELSE 10 * CharsToInt(SubSeq(s, 1, Len(s) - 1))
         + (CHOOSE d \in 0..9 : DigitChars[d + 1] = s[Len(s)])

\* the names of a note's properties, in the order addNote creates them
NoteKeys == << << "i", "d" >>, << "t", "e", "x", "t" >>,
               << "c", "r", "e", "a", "t", "e", "d", "A", "t" >> >>

\* a note as the object JSON.stringify sees: id and createdAt are strings
NoteJSON(n) ==
  [t |-> "obj", keys |-> NoteKeys,
   vals |-> << JStr(IntToChars(n.id)), JStr(n.text), JStr(IntToChars(n.createdAt)) >>]

\* JSON.stringify(notes)
stringifyNotes(ns) ==
  Stringify([t |-> "arr", items |-> [k \in 1..Len(ns) |-> NoteJSON(ns[k])]])

\* the value of property key of a parsed object
Field(o, key) == o.vals[CHOOSE k \in 1..Len(o.keys) : o.keys[k] = key]

\* the notes a parsed array of note objects holds
NotesOf(v) ==
  [k \in 1..Len(v.items) |->
     [id |-> CharsToInt(Field(v.items[k], NoteKeys[1]).s),
      text |-> Field(v.items[k], NoteKeys[2]).s,
      createdAt |-> CharsToInt(Field(v.items[k], NoteKeys[3]).s)]]

\* localStorage holds no item / holds the item value
NoItem == [present |-> FALSE, value |-> <<>>]
Item(value) == [present |-> TRUE, value |-> value]

\* the initializer of useState and the first render: saved ? JSON.parse(saved) : []
\* JSON.parse throws on text that is not JSON; a value that is not an array
\* makes the first render throw (notes.length, notes.map)
loadNotes(st) ==
  IF ~st.present \/ st.value = <<>> THEN [crashed |-> FALSE, notes |-> <<>>]
  ELSE LET r == JSONparse(st.value)
       IN  IF ~r.ok \/ r.val.t # "arr" THEN [crashed |-> TRUE, notes |-> <<>>]
           ELSE [crashed |-> FALSE, notes |-> NotesOf(r.val)]

\* a bug the effect could have: the item is written once and never again
saveEffect_Stale(v, st, ns) == st

\* the effect on [notes]: localStorage.setItem('voiceNotes', JSON.stringify(notes))
saveEffect(v, st, ns) == IF Persisted(v) THEN Item(stringifyNotes(ns)) ELSE st

----------------------------------------------------------------------------
(* Variant "P3": chunked recorder, src/unnamed/part_003                    *)

\* cleanup of useEffect([isRecording, language]) applied to the bag of timers
CleanupTimers_P3(bag) ==
  ClearTimeout(ClearTimeout(bag, "chunk", timeoutRef), "force", forceStopTimeoutRef)

\* recognitionRef.current.stop() of the cleanup
CleanupRecs(rs) ==
  IF recognitionRef # 0 THEN [rs EXCEPT ![recognitionRef] = AfterStop(@)] ELSE rs

\* click on Start Recording: setIsRecording(true), then the effect resets the
\* session and calls startNewChunk of the new render
startRecording_P3 ==
  /\ variant = "P3"
  /\ ~isRecording
  /\ quota.starts > 0
  /\ transcript' = <<>>
  /\ interimTranscript' = <<>>
  /\ heard' = <<>>
  /\ stopRequested' = FALSE
  /\ IF ~supported
       THEN \* startNewChunk gives up; the re-render runs the cleanup
            /\ error' = "Speech recognition not supported in this browser."
            /\ isRecording' = FALSE
            /\ isStoppedManually' = TRUE
            /\ timers' = CleanupTimers_P3(timers)
            /\ recs' = CleanupRecs(recs)
            /\ recognitionRef' = 0
            /\ UNCHANGED forceStopTimeoutRef
       ELSE /\ FreshInst # 0
            /\ error' = ""
            /\ isRecording' = TRUE
            /\ isStoppedManually' = FALSE
            /\ recs' = [recs EXCEPT ![FreshInst] = [st |-> "starting", capRec |-> TRUE]]
            /\ recognitionRef' = FreshInst
            /\ forceStopTimeoutRef' = FreshInst
            /\ timers' = SetTimer(timers, Timer("force", FreshInst))
  /\ quota' = [quota EXCEPT !.starts = @ - 1]
  /\ UNCHANGED << variant, supported, normText, normOut, storage, crashed, interpretedTranscription, streams,
                  mediaRecorderRef, language, isIOS, showFilipinoWarning, finalTranscript, timeoutRef,
                  hasStartedSuccessfully, startAttempts, notes, noteSeq >>

\* click on Stop Recording, and the effect cleanup of the re-render
stopRecording_P3 ==
  /\ variant = "P3"
  /\ isRecording
  /\ isStoppedManually' = TRUE
  /\ isRecording' = FALSE
  /\ interimTranscript' = <<>>
  /\ timers' = CleanupTimers_P3(timers)
  /\ recs' = CleanupRecs(recs)
  /\ recognitionRef' = 0
  /\ stopRequested' = TRUE
  /\ UNCHANGED << variant, supported, normText, normOut, storage, crashed, interpretedTranscription, streams,
                  mediaRecorderRef, language, isIOS, showFilipinoWarning, transcript, finalTranscript, error, timeoutRef,
                  forceStopTimeoutRef, hasStartedSuccessfully, startAttempts, notes,
                  noteSeq, quota, heard >>

\* recognition.onresult of the chunk i
onresult_P3(i, ev) ==
  /\ variant = "P3"
  /\ recs[i].st \in {"listening", "stopping"}
  /\ quota.results > 0
  /\ LET finalText   == ConcatWhere(ev, TRUE, <<>>)
         interimText == ConcatWhere(ev, FALSE, <<>>)
     IN  /\ transcript' = IF finalText # <<>>
                            THEN transcript \o normalizeNumbers_P3(trim(finalText)) \o <<" ">>
                            ELSE transcript
         /\ interimTranscript' = interimText
         /\ UNCHANGED heard
  /\ recs' = [recs EXCEPT ![i] = AfterResult(variant, @, ev)]
  /\ quota' = [quota EXCEPT !.results = @ - 1]
  /\ UNCHANGED << variant, supported, normText, normOut, storage, crashed, interpretedTranscription, streams,
                  mediaRecorderRef, language, isIOS, showFilipinoWarning, isRecording, finalTranscript, error, recognitionRef,
                  isStoppedManually, timeoutRef, forceStopTimeoutRef,
                  hasStartedSuccessfully, startAttempts, timers, notes, noteSeq,
                  stopRequested >>

\* recognition.onerror of the chunk i: the error is only logged
onerror_P3(i, e) ==
  /\ variant = "P3"
  /\ Listening(recs[i])
  /\ recs' = [recs EXCEPT ![i].st = "ending"]
  /\ UNCHANGED << variant, supported, normText, normOut, storage, crashed, interpretedTranscription, streams,
                  mediaRecorderRef, language, isIOS, showFilipinoWarning, isRecording, transcript, interimTranscript,
                  finalTranscript, error, recognitionRef, isStoppedManually, timeoutRef,
                  forceStopTimeoutRef, hasStartedSuccessfully, startAttempts, timers,
                  notes, noteSeq, quota, heard, stopRequested >>

\* recognition.onend of the chunk i
onend_P3(i) ==
  /\ variant = "P3"
  /\ recs[i].st \in {"listening", "stopping", "ending"}
  /\ recs' = [recs EXCEPT ![i].st = "ended"]
  /\ IF recs[i].capRec /\ ~isStoppedManually
       THEN /\ timeoutRef' = i
            /\ timers' = SetTimer(timers, Timer("chunk", i))
       ELSE /\ UNCHANGED << timeoutRef, timers >>
  /\ UNCHANGED << variant, supported, normText, normOut, storage, crashed, interpretedTranscription, streams,
                  mediaRecorderRef, language, isIOS, showFilipinoWarning, isRecording, transcript, interimTranscript,
                  finalTranscript, error, recognitionRef, isStoppedManually,
                  forceStopTimeoutRef, hasStartedSuccessfully, startAttempts, notes,
                  noteSeq, quota, heard, stopRequested >>

\* the 100 ms timer armed by the onend of chunk i fires: startNewChunk of
\* the render that created chunk i
startNewChunk_P3(i) ==
  /\ variant = "P3"
  /\ BagIn(Timer("chunk", i), timers)
  /\ IF isStoppedManually \/ ~recs[i].capRec
       THEN /\ timers' = DropTimer(timers, Timer("chunk", i))
            /\ UNCHANGED << isRecording, error, recs, recognitionRef, isStoppedManually,
                            forceStopTimeoutRef >>
       ELSE IF ~supported
       THEN /\ error' = "Speech recognition not supported in this browser."
            /\ isRecording' = FALSE
            /\ IF isRecording
                 THEN /\ isStoppedManually' = TRUE
                      /\ timers' = CleanupTimers_P3(DropTimer(timers, Timer("chunk", i)))
                      /\ recs' = CleanupRecs(recs)
                      /\ recognitionRef' = 0
                 ELSE /\ timers' = DropTimer(timers, Timer("chunk", i))
                      /\ UNCHANGED << isStoppedManually, recs, recognitionRef >>
            /\ UNCHANGED forceStopTimeoutRef
       ELSE /\ FreshInst # 0
            /\ recs' = [recs EXCEPT ![FreshInst] =
                          [st |-> "starting", capRec |-> recs[i].capRec]]
            /\ recognitionRef' = FreshInst
            /\ forceStopTimeoutRef' = FreshInst
            /\ timers' = SetTimer(DropTimer(timers, Timer("chunk", i)),
                                  Timer("force", FreshInst))
            /\ UNCHANGED << isRecording, error, isStoppedManually >>
  /\ UNCHANGED << variant, supported, normText, normOut, storage, crashed, interpretedTranscription, streams,
                  mediaRecorderRef, language, isIOS, showFilipinoWarning, transcript, interimTranscript, finalTranscript,
                  timeoutRef, hasStartedSuccessfully, startAttempts, notes, noteSeq,
                  quota, heard, stopRequested >>

\* the 60 s timer armed with chunk i fires
forceStop_P3(i) ==
  /\ variant = "P3"
  /\ BagIn(Timer("force", i), timers)
  /\ timers' = DropTimer(timers, Timer("force", i))
  /\ recs' = CleanupRecs(recs)
  /\ UNCHANGED << variant, supported, normText, normOut, storage, crashed, interpretedTranscription, streams,
                  mediaRecorderRef, language, isIOS, showFilipinoWarning, isRecording, transcript, interimTranscript,
                  finalTranscript, error, recognitionRef, isStoppedManually, timeoutRef,
                  forceStopTimeoutRef, hasStartedSuccessfully, startAttempts, notes,
                  noteSeq, quota, heard, stopRequested >>

\* the text saveNote hands to onTranscriptComplete
SaveText_P3 == trim(transcript \o interimTranscript)

\* click on Save Note (rendered when !isRecording && transcript), then
\* handleSave and addNote
saveNote_P3 ==
  /\ variant = "P3"
  /\ ~isRecording /\ transcript # <<>>
  /\ quota.notes > 0
  /\ IF SaveText_P3 # <<>>
       THEN /\ notes' = IF trim(normalizeNumbers_P3(SaveText_P3)) # <<>>
                          THEN addNote(notes, noteSeq, normalizeNumbers_P3(SaveText_P3))
                          ELSE notes
            /\ noteSeq' = IF trim(normalizeNumbers_P3(SaveText_P3)) # <<>>
                            THEN noteSeq + 1 ELSE noteSeq
            /\ transcript' = <<>>
            /\ interimTranscript' = <<>>
       ELSE UNCHANGED << notes, noteSeq, transcript, interimTranscript >>
  /\ quota' = [quota EXCEPT !.notes = @ - 1]
  /\ storage' = saveEffect(variant, storage, notes')
  /\ UNCHANGED << variant, supported, normText, normOut, crashed, interpretedTranscription, streams,
                  mediaRecorderRef, language, isIOS, showFilipinoWarning, isRecording, finalTranscript, error, recognitionRef,
                  isStoppedManually, timeoutRef, forceStopTimeoutRef,
                  hasStartedSuccessfully, startAttempts, recs, timers, heard,
                  stopRequested >>

\* click on Discard
discard_P3 ==
  /\ variant = "P3"
  /\ ~isRecording /\ transcript # <<>>
  /\ transcript' = <<>>
  /\ interimTranscript' = <<>>
  /\ UNCHANGED << variant, supported, normText, normOut, storage, crashed, interpretedTranscription, streams,
                  mediaRecorderRef, language, isIOS, showFilipinoWarning, isRecording, finalTranscript, error, recognitionRef,
                  isStoppedManually, timeoutRef, forceStopTimeoutRef,
                  hasStartedSuccessfully, startAttempts, recs, timers, notes, noteSeq,
                  quota, heard, stopRequested >>

\* the start event of a recognition object that has no onstart handler
onstart_chunk(i) ==
  /\ variant \in {"P3", "V3", "NL", "V1"}
  /\ recs[i].st = "starting"
  /\ recs' = [recs EXCEPT ![i].st = "listening"]
  /\ UNCHANGED << variant, supported, normText, normOut, storage, crashed, interpretedTranscription, streams,
                  mediaRecorderRef, language, isIOS, showFilipinoWarning, isRecording, transcript, interimTranscript,
                  finalTranscript, error, recognitionRef, isStoppedManually, timeoutRef,
                  forceStopTimeoutRef, hasStartedSuccessfully, startAttempts, timers,
                  notes, noteSeq, quota, heard, stopRequested >>

Next_P3 ==
  \/ startRecording_P3
  \/ stopRecording_P3
  \/ \E i \in Insts : \E ev \in ResultEvents("P3") : onresult_P3(i, ev)
  \/ \E i \in Insts : \E e \in ErrorClasses : onerror_P3(i, e)
  \/ \E i \in Insts : onend_P3(i)
  \/ \E i \in Insts : startNewChunk_P3(i)
  \/ \E i \in Insts : forceStop_P3(i)
  \/ saveNote_P3
  \/ discard_P3

----------------------------------------------------------------------------
(* Variant "NL": chunked recorder of the component tree,                   *)
(* src/my-react-app/src/components/NotesList/NotesList.jsx (Recorder),     *)
(* mounted by the App of src/unnamed/part_002                              *)

\* click on Start Recording: the re-render runs the cleanup of the previous
\* effect, then the effect resets the session and calls startNewChunk
startRecording_NL ==
  /\ variant = "NL"
  /\ ~isRecording
  /\ quota.starts > 0
  /\ isRecording' = TRUE
  /\ transcript' = <<>>
  /\ interimTranscript' = <<>>
  /\ finalTranscript' = <<>>
  /\ isStoppedManually' = FALSE
  /\ heard' = <<>>
  /\ stopRequested' = FALSE
  /\ LET cleared == ClearTimeout(timers, "chunk", timeoutRef)
         stopped == CleanupRecs(recs)
     IN  IF ~supported
           THEN \* alert('Speech recognition not supported')
                /\ timers' = cleared
                /\ recs' = stopped
                /\ recognitionRef' = 0
           ELSE /\ FreshInst # 0
                /\ recs' = [stopped EXCEPT ![FreshInst] =
                              [st |-> "starting", capRec |-> TRUE]]
                /\ recognitionRef' = FreshInst
                /\ timers' = SetTimer(cleared, Timer("force", FreshInst))
  /\ quota' = [quota EXCEPT !.starts = @ - 1]
  /\ UNCHANGED << variant, supported, normText, normOut, storage, crashed, interpretedTranscription, streams,
                  mediaRecorderRef, language, isIOS, showFilipinoWarning, error, timeoutRef, forceStopTimeoutRef,
                  hasStartedSuccessfully, startAttempts, notes, noteSeq >>

\* click on Stop Recording, and the effect cleanup of the re-render
stopRecording_NL ==
  /\ variant = "NL"
  /\ isRecording
  /\ isStoppedManually' = TRUE
  /\ isRecording' = FALSE
  /\ interimTranscript' = <<>>
  /\ finalTranscript' = trim(transcript)
  /\ timers' = ClearTimeout(timers, "chunk", timeoutRef)
  /\ recs' = CleanupRecs(recs)
  /\ recognitionRef' = 0
  /\ stopRequested' = TRUE
  /\ UNCHANGED << variant, supported, normText, normOut, storage, crashed, interpretedTranscription, streams,
                  mediaRecorderRef, language, isIOS, showFilipinoWarning, transcript, error, timeoutRef, forceStopTimeoutRef,
                  hasStartedSuccessfully, startAttempts, notes, noteSeq, quota,
                  heard >>

\* a bug onresult could have: the fragments are not separated
AppendFinal_NL_NoSpace(prev, final) == prev \o normalizeNumbers_TU(trim(final))

\* setTranscript(prev => prev + clean + ' ') with clean = normalizeNumbers(final.trim())
AppendFinal_NL(prev, final) == prev \o normalizeNumbers_TU(trim(final)) \o <<" ">>

\* recognition.onresult of the chunk i
onresult_NL(i, ev) ==
  /\ variant = "NL"
  /\ recs[i].st \in {"listening", "stopping"}
  /\ quota.results > 0
  /\ LET final   == ConcatWhere(ev, TRUE, <<>>)
         interim == ConcatWhere(ev, FALSE, <<>>)
     IN  /\ transcript' = IF final # <<>>
                            THEN AppendFinal_NL(transcript, final)
                            ELSE transcript
         /\ interimTranscript' = interim
         /\ heard' = IF final # <<>> THEN Append(heard, final) ELSE heard
  /\ recs' = [recs EXCEPT ![i] = AfterResult(variant, @, ev)]
  /\ quota' = [quota EXCEPT !.results = @ - 1]
  /\ UNCHANGED << variant, supported, normText, normOut, storage, crashed, interpretedTranscription, streams,
                  mediaRecorderRef, language, isIOS, showFilipinoWarning, isRecording, finalTranscript, error, recognitionRef,
                  isStoppedManually, timeoutRef, forceStopTimeoutRef,
                  hasStartedSuccessfully, startAttempts, timers, notes, noteSeq,
                  stopRequested >>

\* recognition.onerror = () => {}
onerror_NL(i, e) ==
  /\ variant = "NL"
  /\ Listening(recs[i])
  /\ recs' = [recs EXCEPT ![i].st = "ending"]
  /\ UNCHANGED << variant, supported, normText, normOut, storage, crashed, interpretedTranscription, streams,
                  mediaRecorderRef, language, isIOS, showFilipinoWarning, isRecording, transcript, interimTranscript,
                  finalTranscript, error, recognitionRef, isStoppedManually, timeoutRef,
                  forceStopTimeoutRef, hasStartedSuccessfully, startAttempts, timers,
                  notes, noteSeq, quota, heard, stopRequested >>

\* recognition.onend of the chunk i
onend_NL(i) ==
  /\ variant = "NL"
  /\ recs[i].st \in {"listening", "stopping", "ending"}
  /\ recs' = [recs EXCEPT ![i].st = "ended"]
  /\ IF recs[i].capRec /\ ~isStoppedManually
       THEN /\ timeoutRef' = i
            /\ timers' = SetTimer(timers, Timer("chunk", i))
       ELSE UNCHANGED << timeoutRef, timers >>
  /\ UNCHANGED << variant, supported, normText, normOut, storage, crashed, interpretedTranscription, streams,
                  mediaRecorderRef, language, isIOS, showFilipinoWarning, isRecording, transcript, interimTranscript,
                  finalTranscript, error, recognitionRef, isStoppedManually,
                  forceStopTimeoutRef, hasStartedSuccessfully, startAttempts, notes,
                  noteSeq, quota, heard, stopRequested >>

\* the 80 ms timer armed by the onend of chunk i fires
startNewChunk_NL(i) ==
  /\ variant = "NL"
  /\ BagIn(Timer("chunk", i), timers)
  /\ IF isStoppedManually \/ ~recs[i].capRec \/ ~supported
       THEN /\ timers' = DropTimer(timers, Timer("chunk", i))
            /\ UNCHANGED << recs, recognitionRef >>
       ELSE /\ FreshInst # 0
            /\ recs' = [recs EXCEPT ![FreshInst] =
                          [st |-> "starting", capRec |-> recs[i].capRec]]
            /\ recognitionRef' = FreshInst
            /\ timers' = SetTimer(DropTimer(timers, Timer("chunk", i)),
                                  Timer("force", FreshInst))
  /\ UNCHANGED << variant, supported, normText, normOut, storage, crashed, interpretedTranscription, streams,
                  mediaRecorderRef, language, isIOS, showFilipinoWarning, isRecording, transcript, interimTranscript,
                  finalTranscript, error, isStoppedManually, timeoutRef,
                  forceStopTimeoutRef, hasStartedSuccessfully, startAttempts, notes,
                  noteSeq, quota, heard, stopRequested >>

\* the 60 s timer armed with chunk i fires
forceStop_NL(i) ==
  /\ variant = "NL"
  /\ BagIn(Timer("force", i), timers)
  /\ timers' = DropTimer(timers, Timer("force", i))
  /\ recs' = IF recs[i].capRec /\ ~isStoppedManually THEN CleanupRecs(recs) ELSE recs
  /\ UNCHANGED << variant, supported, normText, normOut, storage, crashed, interpretedTranscription, streams,
                  mediaRecorderRef, language, isIOS, showFilipinoWarning, isRecording, transcript, interimTranscript,
                  finalTranscript, error, recognitionRef, isStoppedManually, timeoutRef,
                  forceStopTimeoutRef, hasStartedSuccessfully, startAttempts, notes,
                  noteSeq, quota, heard, stopRequested >>

\* click on Save Note (rendered when !isRecording && finalTranscript), then
\* handleSave and addNote
saveNote_NL ==
  /\ variant = "NL"
  /\ ~isRecording /\ finalTranscript # <<>>
  /\ quota.notes > 0
  /\ notes' = IF normalizeNumbers_TU(finalTranscript) # <<>>
                THEN addNote(notes, noteSeq, normalizeNumbers_TU(finalTranscript))
                ELSE notes
  /\ noteSeq' = IF normalizeNumbers_TU(finalTranscript) # <<>> THEN noteSeq + 1 ELSE noteSeq
  /\ finalTranscript' = <<>>
  /\ transcript' = <<>>
  /\ quota' = [quota EXCEPT !.notes = @ - 1]
  /\ storage' = saveEffect(variant, storage, notes')
  /\ UNCHANGED << variant, supported, normText, normOut, crashed, interpretedTranscription, streams,
                  mediaRecorderRef, language, isIOS, showFilipinoWarning, isRecording, interimTranscript, error,
                  recognitionRef, isStoppedManually, timeoutRef, forceStopTimeoutRef,
                  hasStartedSuccessfully, startAttempts, recs, timers, heard,
                  stopRequested >>

\* click on Discard
discard_NL ==
  /\ variant = "NL"
  /\ ~isRecording /\ finalTranscript # <<>>
  /\ finalTranscript' = <<>>
  /\ transcript' = <<>>
  /\ UNCHANGED << variant, supported, normText, normOut, storage, crashed, interpretedTranscription, streams,
                  mediaRecorderRef, language, isIOS, showFilipinoWarning, isRecording, interimTranscript, error,
                  recognitionRef, isStoppedManually, timeoutRef, forceStopTimeoutRef,
                  hasStartedSuccessfully, startAttempts, recs, timers, notes, noteSeq,
                  quota, heard, stopRequested >>

Next_NL ==
  \/ startRecording_NL
  \/ stopRecording_NL
  \/ \E i \in Insts : \E ev \in ResultEvents("NL") : onresult_NL(i, ev)
  \/ \E i \in Insts : \E e \in ErrorClasses : onerror_NL(i, e)
  \/ \E i \in Insts : onend_NL(i)
  \/ \E i \in Insts : startNewChunk_NL(i)
  \/ \E i \in Insts : forceStop_NL(i)
  \/ saveNote_NL
  \/ discard_NL

----------------------------------------------------------------------------
(* Variant "V3": language-dependent chunked recorder,                      *)
(* src/unnamed/part_000 (third application), language en-US                *)


\* a bug startRecording could have: the text of the previous session is kept
startRecording_V3_KeepsText ==
  /\ variant = "V3"
  /\ ~isRecording
  /\ quota.starts > 0
  /\ interimTranscript' = <<>>
  /\ isStoppedManually' = FALSE
  /\ heard' = <<>>
  /\ stopRequested' = FALSE
  /\ IF ~supported
       THEN /\ error' = "Speech recognition not supported."
            /\ isRecording' = FALSE
            /\ UNCHANGED << recs, recognitionRef >>
       ELSE /\ FreshInst # 0
            /\ error' = ""
            /\ isRecording' = TRUE
            /\ recs' = [recs EXCEPT ![FreshInst] = [st |-> "starting", capRec |-> TRUE]]
            /\ recognitionRef' = FreshInst
  /\ quota' = [quota EXCEPT !.starts = @ - 1]
  /\ UNCHANGED << variant, supported, normText, normOut, storage, crashed, interpretedTranscription, streams,
                  mediaRecorderRef, language, isIOS, showFilipinoWarning, transcript, finalTranscript, timeoutRef,
                  forceStopTimeoutRef, hasStartedSuccessfully, startAttempts, timers,
                  notes, noteSeq >>

\* click on Start Recording, then the effect of the re-render and its startChunk
startRecording_V3 ==
  /\ variant = "V3"
  /\ ~isRecording
  /\ quota.starts > 0
  /\ transcript' = <<>>
  /\ interimTranscript' = <<>>
  /\ isStoppedManually' = FALSE
  /\ heard' = <<>>
  /\ stopRequested' = FALSE
  /\ IF ~supported
       THEN /\ error' = "Speech recognition not supported."
            /\ isRecording' = FALSE
            /\ UNCHANGED << recs, recognitionRef >>
       ELSE /\ FreshInst # 0
            /\ error' = ""
            /\ isRecording' = TRUE
            /\ recs' = [recs EXCEPT ![FreshInst] = [st |-> "starting", capRec |-> TRUE]]
            /\ recognitionRef' = FreshInst
  /\ quota' = [quota EXCEPT !.starts = @ - 1]
  /\ UNCHANGED << variant, supported, normText, normOut, storage, crashed, interpretedTranscription, streams,
                  mediaRecorderRef, language, isIOS, showFilipinoWarning, finalTranscript, timeoutRef, forceStopTimeoutRef,
                  hasStartedSuccessfully, startAttempts, timers, notes, noteSeq >>

\* click on Stop Recording, and the effect cleanup of the re-render
stopRecording_V3 ==
  /\ variant = "V3"
  /\ isRecording
  /\ isStoppedManually' = TRUE
  /\ isRecording' = FALSE
  /\ interimTranscript' = <<>>
  /\ timers' = ClearTimeout(timers, "chunk", timeoutRef)
  /\ recs' = CleanupRecs(recs)
  /\ recognitionRef' = 0
  /\ stopRequested' = TRUE
  /\ UNCHANGED << variant, supported, normText, normOut, storage, crashed, interpretedTranscription, streams,
                  mediaRecorderRef, language, isIOS, showFilipinoWarning, transcript, finalTranscript, error, timeoutRef,
                  forceStopTimeoutRef, hasStartedSuccessfully, startAttempts, notes,
                  noteSeq, quota, heard >>

\* recognition.onresult of the chunk i
onresult_V3(i, ev) ==
  /\ variant = "V3"
  /\ recs[i].st \in {"listening", "stopping"}
  /\ quota.results > 0
  /\ LET final   == ConcatWhere(ev, TRUE, <<>>)
         interim == ConcatWhere(ev, FALSE, <<>>)
     IN  /\ transcript' = IF final # <<>>
                            THEN transcript \o normalizeNumbers_V3(trim(final)) \o <<" ">>
                            ELSE transcript
         /\ interimTranscript' = interim
         /\ UNCHANGED heard
  /\ recs' = [recs EXCEPT ![i] = AfterResult(variant, @, ev)]
  /\ quota' = [quota EXCEPT !.results = @ - 1]
  /\ UNCHANGED << variant, supported, normText, normOut, storage, crashed, interpretedTranscription, streams,
                  mediaRecorderRef, language, isIOS, showFilipinoWarning, isRecording, finalTranscript, error, recognitionRef,
                  isStoppedManually, timeoutRef, forceStopTimeoutRef,
                  hasStartedSuccessfully, startAttempts, timers, notes, noteSeq,
                  stopRequested >>

\* recognition.onerror: all errors are ignored
onerror_V3(i, e) ==
  /\ variant = "V3"
  /\ Listening(recs[i])
  /\ recs' = [recs EXCEPT ![i].st = "ending"]
  /\ UNCHANGED << variant, supported, normText, normOut, storage, crashed, interpretedTranscription, streams,
                  mediaRecorderRef, language, isIOS, showFilipinoWarning, isRecording, transcript, interimTranscript,
                  finalTranscript, error, recognitionRef, isStoppedManually, timeoutRef,
                  forceStopTimeoutRef, hasStartedSuccessfully, startAttempts, timers,
                  notes, noteSeq, quota, heard, stopRequested >>

\* recognition.onend of the chunk i
onend_V3(i) ==
  /\ variant = "V3"
  /\ recs[i].st \in {"listening", "stopping", "ending"}
  /\ recs' = [recs EXCEPT ![i].st = "ended"]
  /\ IF recs[i].capRec /\ ~isStoppedManually
       THEN /\ timeoutRef' = i
            /\ timers' = SetTimer(timers, Timer("chunk", i))
       ELSE UNCHANGED << timeoutRef, timers >>
  /\ UNCHANGED << variant, supported, normText, normOut, storage, crashed, interpretedTranscription, streams,
                  mediaRecorderRef, language, isIOS, showFilipinoWarning, isRecording, transcript, interimTranscript,
                  finalTranscript, error, recognitionRef, isStoppedManually,
                  forceStopTimeoutRef, hasStartedSuccessfully, startAttempts, notes,
                  noteSeq, quota, heard, stopRequested >>

\* the restart timer armed by the onend of chunk i fires: startChunk of the
\* effect that created chunk i
startChunk_V3(i) ==
  /\ variant = "V3"
  /\ BagIn(Timer("chunk", i), timers)
  /\ IF isStoppedManually \/ ~recs[i].capRec
       THEN /\ timers' = DropTimer(timers, Timer("chunk", i))
            /\ UNCHANGED << recs, recognitionRef >>
       ELSE /\ FreshInst # 0
            /\ recs' = [recs EXCEPT ![FreshInst] =
                          [st |-> "starting", capRec |-> recs[i].capRec]]
            /\ recognitionRef' = FreshInst
            /\ timers' = DropTimer(timers, Timer("chunk", i))
  /\ UNCHANGED << variant, supported, normText, normOut, storage, crashed, interpretedTranscription, streams,
                  mediaRecorderRef, language, isIOS, showFilipinoWarning, isRecording, transcript, interimTranscript,
                  finalTranscript, error, isStoppedManually, timeoutRef,
                  forceStopTimeoutRef, hasStartedSuccessfully, startAttempts, notes,
                  noteSeq, quota, heard, stopRequested >>

\* the text saveNote hands to onTranscriptComplete
SaveText_V3 == normalizeNumbers_V3(trim(transcript \o interimTranscript))

\* click on Save Note (rendered when !isRecording && transcript)
saveNote_V3 ==
  /\ variant = "V3"
  /\ ~isRecording /\ transcript # <<>>
  /\ quota.notes > 0
  /\ IF trim(transcript \o interimTranscript) # <<>>
       THEN /\ notes' = IF SaveText_V3 # <<>>
                          THEN addNote(notes, noteSeq, SaveText_V3) ELSE notes
            /\ noteSeq' = IF SaveText_V3 # <<>> THEN noteSeq + 1 ELSE noteSeq
            /\ transcript' = <<>>
            /\ interimTranscript' = <<>>
       ELSE UNCHANGED << notes, noteSeq, transcript, interimTranscript >>
  /\ quota' = [quota EXCEPT !.notes = @ - 1]
  /\ UNCHANGED << variant, supported, normText, normOut, storage, crashed, interpretedTranscription, streams,
                  mediaRecorderRef, language, isIOS, showFilipinoWarning, isRecording, finalTranscript, error, recognitionRef,
                  isStoppedManually, timeoutRef, forceStopTimeoutRef,
                  hasStartedSuccessfully, startAttempts, recs, timers, heard,
                  stopRequested >>

\* click on Discard
discard_V3 ==
  /\ variant = "V3"
  /\ ~isRecording /\ transcript # <<>>
  /\ transcript' = <<>>
  /\ interimTranscript' = <<>>
  /\ UNCHANGED << variant, supported, normText, normOut, storage, crashed, interpretedTranscription, streams,
                  mediaRecorderRef, language, isIOS, showFilipinoWarning, isRecording, finalTranscript, error, recognitionRef,
                  isStoppedManually, timeoutRef, forceStopTimeoutRef,
                  hasStartedSuccessfully, startAttempts, recs, timers, notes, noteSeq,
                  quota, heard, stopRequested >>

Next_V3 ==
  \/ startRecording_V3
  \/ stopRecording_V3
  \/ \E i \in Insts : \E ev \in ResultEvents("V3") : onresult_V3(i, ev)
  \/ \E i \in Insts : \E e \in ErrorClasses : onerror_V3(i, e)
  \/ \E i \in Insts : onend_V3(i)
  \/ \E i \in Insts : startChunk_V3(i)
  \/ saveNote_V3
  \/ discard_V3

----------------------------------------------------------------------------
(* Variant "P1": continuous recorder, src/unnamed/part_001                 *)
(* One recognition object, constructed by the mount effect.                *)

\* restart attempts after which onend gives up
MaxStartAttempts == 15

\* click on Start Recording: resets the session and arms the 300 ms timer
startRecording_P1 ==
  /\ variant = "P1"
  /\ ~isRecording
  /\ quota.starts > 0
  /\ recognitionRef # 0
  /\ CopiesIn(Timer("start", 0), timers) < quota.pending
  /\ transcript' = <<>>
  /\ interimTranscript' = <<>>
  /\ error' = ""
  /\ isStoppedManually' = FALSE
  /\ startAttempts' = 0
  /\ timers' = SetTimer(timers, Timer("start", 0))
  /\ heard' = <<>>
  /\ stopRequested' = FALSE
  /\ quota' = [quota EXCEPT !.starts = @ - 1]
  /\ UNCHANGED << variant, supported, normText, normOut, storage, crashed, interpretedTranscription, streams,
                  mediaRecorderRef, language, isIOS, showFilipinoWarning, isRecording, finalTranscript, recognitionRef,
                  timeoutRef, forceStopTimeoutRef, hasStartedSuccessfully, recs, notes,
                  noteSeq >>

\* the 300 ms timer of startRecording fires
startTimer_P1 ==
  /\ variant = "P1"
  /\ BagIn(Timer("start", 0), timers)
  /\ IF StartThrows(recs[recognitionRef])
       THEN \* 'already started': stop and try again after 100 ms
            /\ CopiesIn(Timer("retry", 0), timers) < quota.pending
            /\ recs' = [recs EXCEPT ![recognitionRef] = AfterStop(@)]
            /\ timers' = SetTimer(DropTimer(timers, Timer("start", 0)), Timer("retry", 0))
            /\ UNCHANGED isRecording
       ELSE /\ recs' = [recs EXCEPT ![recognitionRef] = AfterStart(@)]
            /\ isRecording' = TRUE
            /\ timers' = DropTimer(timers, Timer("start", 0))
  /\ UNCHANGED << variant, supported, normText, normOut, storage, crashed, interpretedTranscription, streams,
                  mediaRecorderRef, language, isIOS, showFilipinoWarning, transcript, interimTranscript, finalTranscript,
                  error, recognitionRef, isStoppedManually, timeoutRef,
                  forceStopTimeoutRef, hasStartedSuccessfully, startAttempts, notes,
                  noteSeq, quota, heard, stopRequested >>

\* the 100 ms timer of the 'already started' branch fires; a second
\* InvalidStateError is not caught and changes nothing
retryTimer_P1 ==
  /\ variant = "P1"
  /\ BagIn(Timer("retry", 0), timers)
  /\ timers' = DropTimer(timers, Timer("retry", 0))
  /\ recs' = IF StartThrows(recs[recognitionRef]) THEN recs
             ELSE [recs EXCEPT ![recognitionRef] = AfterStart(@)]
  /\ UNCHANGED << variant, supported, normText, normOut, storage, crashed, interpretedTranscription, streams,
                  mediaRecorderRef, language, isIOS, showFilipinoWarning, isRecording, transcript, interimTranscript,
                  finalTranscript, error, recognitionRef, isStoppedManually, timeoutRef,
                  forceStopTimeoutRef, hasStartedSuccessfully, startAttempts, notes,
                  noteSeq, quota, heard, stopRequested >>

\* click on Stop Recording
stopRecording_P1 ==
  /\ variant = "P1"
  /\ isRecording
  /\ isStoppedManually' = TRUE
  /\ recs' = CleanupRecs(recs)
  /\ isRecording' = FALSE
  /\ interimTranscript' = <<>>
  /\ stopRequested' = TRUE
  /\ UNCHANGED << variant, supported, normText, normOut, storage, crashed, interpretedTranscription, streams,
                  mediaRecorderRef, language, isIOS, showFilipinoWarning, transcript, finalTranscript, error, recognitionRef,
                  timeoutRef, forceStopTimeoutRef, hasStartedSuccessfully,
                  startAttempts, timers, notes, noteSeq, quota, heard >>

\* a bug onstart could have: the attempt counter is not reset
onstart_P1_NoReset(i) ==
  /\ variant = "P1"
  /\ recs[i].st = "starting"
  /\ recs' = [recs EXCEPT ![i].st = "listening"]
  /\ UNCHANGED << variant, supported, normText, normOut, storage, crashed, interpretedTranscription, streams,
                  mediaRecorderRef, language, isIOS, showFilipinoWarning, isRecording, transcript, interimTranscript,
                  finalTranscript, error, recognitionRef, isStoppedManually, timeoutRef,
                  forceStopTimeoutRef, hasStartedSuccessfully, startAttempts, timers,
                  notes, noteSeq, quota, heard, stopRequested >>

\* recognition.onstart
onstart_P1(i) ==
  /\ variant = "P1"
  /\ recs[i].st = "starting"
  /\ recs' = [recs EXCEPT ![i].st = "listening"]
  /\ startAttempts' = 0
  /\ UNCHANGED << variant, supported, normText, normOut, storage, crashed, interpretedTranscription, streams,
                  mediaRecorderRef, language, isIOS, showFilipinoWarning, isRecording, transcript, interimTranscript,
                  finalTranscript, error, recognitionRef, isStoppedManually, timeoutRef,
                  forceStopTimeoutRef, hasStartedSuccessfully, timers, notes, noteSeq,
                  quota, heard, stopRequested >>

\* recognition.onresult
onresult_P1(i, ev) ==
  /\ variant = "P1"
  /\ recs[i].st \in {"listening", "stopping"}
  /\ quota.results > 0
  /\ LET final   == ConcatWhere(ev, TRUE, <<>>)
         interim == ConcatWhere(ev, FALSE, <<>>)
     IN  /\ transcript' = IF final # <<>>
                            THEN transcript \o normalizeNumbers_P1(final) \o <<" ">>
                            ELSE transcript
         /\ interimTranscript' = interim
         /\ UNCHANGED heard
  /\ recs' = [recs EXCEPT ![i] = AfterResult(variant, @, ev)]
  /\ quota' = [quota EXCEPT !.results = @ - 1]
  /\ UNCHANGED << variant, supported, normText, normOut, storage, crashed, interpretedTranscription, streams,
                  mediaRecorderRef, language, isIOS, showFilipinoWarning, isRecording, finalTranscript, error, recognitionRef,
                  isStoppedManually, timeoutRef, forceStopTimeoutRef,
                  hasStartedSuccessfully, startAttempts, timers, notes, noteSeq,
                  stopRequested >>

\* the message recognition.onerror shows for an error class ("": none)
ErrorMessage_P1(e) ==
  CASE e \in {"not-allowed", "permission-denied"} -> "Microphone access denied."
    [] e = "network" -> "No internet connection."
    [] e = "language-not-supported" -> "Selected language not supported on this device."
    [] OTHER -> ""

\* recognition.onerror
onerror_P1(i, e) ==
  /\ variant = "P1"
  /\ Listening(recs[i])
  /\ recs' = [recs EXCEPT ![i].st = "ending"]
  /\ error' = IF ErrorMessage_P1(e) # "" THEN ErrorMessage_P1(e) ELSE error
  /\ isRecording' = FALSE
  /\ UNCHANGED << variant, supported, normText, normOut, storage, crashed, interpretedTranscription, streams,
                  mediaRecorderRef, language, isIOS, showFilipinoWarning, transcript, interimTranscript, finalTranscript,
                  recognitionRef, isStoppedManually, timeoutRef, forceStopTimeoutRef,
                  hasStartedSuccessfully, startAttempts, timers, notes, noteSeq,
                  quota, heard, stopRequested >>

\* recognition.onend
onend_P1(i) ==
  /\ variant = "P1"
  /\ recs[i].st \in {"listening", "stopping", "ending"}
  /\ recs' = [recs EXCEPT ![i].st = "ended"]
  /\ IF ~isStoppedManually
       THEN /\ startAttempts' = startAttempts + 1
            /\ IF startAttempts + 1 > MaxStartAttempts
                 THEN /\ error' = "Speech recognition keeps stopping. Try again or use a different browser."
                      /\ isRecording' = FALSE
                      /\ UNCHANGED timers
                 ELSE /\ CopiesIn(Timer("restart", i), timers) < quota.pending
                      /\ timers' = SetTimer(timers, Timer("restart", i))
                      /\ UNCHANGED << error, isRecording >>
       ELSE /\ isRecording' = FALSE
            /\ UNCHANGED << startAttempts, error, timers >>
  /\ UNCHANGED << variant, supported, normText, normOut, storage, crashed, interpretedTranscription, streams,
                  mediaRecorderRef, language, isIOS, showFilipinoWarning, transcript, interimTranscript, finalTranscript,
                  recognitionRef, isStoppedManually, timeoutRef, forceStopTimeoutRef,
                  hasStartedSuccessfully, notes, noteSeq, quota, heard,
                  stopRequested >>

\* the text saveNote hands to onTranscriptComplete
SaveText_P1 == normalizeNumbers_P1(trim(transcript \o interimTranscript))

\* click on Save Note (rendered when !isRecording && transcript)
saveNote_P1 ==
  /\ variant = "P1"
  /\ ~isRecording /\ transcript # <<>>
  /\ quota.notes > 0
  /\ IF trim(transcript \o interimTranscript) # <<>>
       THEN /\ notes' = IF SaveText_P1 # <<>>
                          THEN addNote(notes, noteSeq, SaveText_P1) ELSE notes
            /\ noteSeq' = IF SaveText_P1 # <<>> THEN noteSeq + 1 ELSE noteSeq
            /\ transcript' = <<>>
            /\ interimTranscript' = <<>>
       ELSE UNCHANGED << notes, noteSeq, transcript, interimTranscript >>
  /\ quota' = [quota EXCEPT !.notes = @ - 1]
  /\ UNCHANGED << variant, supported, normText, normOut, storage, crashed, interpretedTranscription, streams,
                  mediaRecorderRef, language, isIOS, showFilipinoWarning, isRecording, finalTranscript, error, recognitionRef,
                  isStoppedManually, timeoutRef, forceStopTimeoutRef,
                  hasStartedSuccessfully, startAttempts, recs, timers, heard,
                  stopRequested >>

\* click on Discard
discard_P1 ==
  /\ variant = "P1"
  /\ ~isRecording /\ transcript # <<>>
  /\ transcript' = <<>>
  /\ interimTranscript' = <<>>
  /\ UNCHANGED << variant, supported, normText, normOut, storage, crashed, interpretedTranscription, streams,
                  mediaRecorderRef, language, isIOS, showFilipinoWarning, isRecording, finalTranscript, error, recognitionRef,
                  isStoppedManually, timeoutRef, forceStopTimeoutRef,
                  hasStartedSuccessfully, startAttempts, recs, timers, notes, noteSeq,
                  quota, heard, stopRequested >>

----------------------------------------------------------------------------
(* Variant "App": Android debug recorder, src/my-react-app/src/App.jsx     *)

\* click on Start Recording (disabled without browser support)
startRecording_App ==
  /\ variant = "App"
  /\ supported
  /\ ~isRecording
  /\ quota.starts > 0
  /\ FreshInst # 0
  /\ error' = ""
  /\ transcript' = <<>>
  /\ interimTranscript' = <<>>
  /\ isStoppedManually' = FALSE
  /\ timers' = ClearTimeout(timers, "restart", timeoutRef)
  /\ recs' = [CleanupRecs(recs) EXCEPT ![FreshInst] =
                [st |-> "starting", capRec |-> isRecording]]
  /\ recognitionRef' = FreshInst
  /\ isRecording' = TRUE
  /\ heard' = <<>>
  /\ stopRequested' = FALSE
  /\ quota' = [quota EXCEPT !.starts = @ - 1]
  /\ UNCHANGED << variant, supported, normText, normOut, storage, crashed, interpretedTranscription, streams,
                  mediaRecorderRef, language, isIOS, showFilipinoWarning, finalTranscript, timeoutRef, forceStopTimeoutRef,
                  hasStartedSuccessfully, startAttempts, notes, noteSeq >>

\* a bug stopRecording could have: clearing isRecording is left to onend
stopRecording_App_LeavesRecording ==
  /\ variant = "App"
  /\ isRecording
  /\ isStoppedManually' = TRUE
  /\ timers' = ClearTimeout(timers, "restart", timeoutRef)
  /\ timeoutRef' = 0
  /\ recs' = CleanupRecs(recs)
  /\ recognitionRef' = 0
  /\ interimTranscript' = <<>>
  /\ stopRequested' = TRUE
  /\ UNCHANGED << variant, supported, normText, normOut, storage, crashed, interpretedTranscription, streams,
                  mediaRecorderRef, language, isIOS, showFilipinoWarning, isRecording, transcript, finalTranscript, error,
                  forceStopTimeoutRef, hasStartedSuccessfully, startAttempts, notes,
                  noteSeq, quota, heard >>

\* click on Stop Recording
stopRecording_App ==
  /\ variant = "App"
  /\ isRecording
  /\ isStoppedManually' = TRUE
  /\ timers' = ClearTimeout(timers, "restart", timeoutRef)
  /\ timeoutRef' = 0
  /\ recs' = CleanupRecs(recs)
  /\ recognitionRef' = 0
  /\ isRecording' = FALSE
  /\ interimTranscript' = <<>>
  /\ stopRequested' = TRUE
  /\ UNCHANGED << variant, supported, normText, normOut, storage, crashed, interpretedTranscription, streams,
                  mediaRecorderRef, language, isIOS, showFilipinoWarning, transcript, finalTranscript, error,
                  forceStopTimeoutRef, hasStartedSuccessfully, startAttempts, notes,
                  noteSeq, quota, heard >>

\* recognition.onstart
onstart_App(i) ==
  /\ variant = "App"
  /\ recs[i].st = "starting"
  /\ recs' = [recs EXCEPT ![i].st = "listening"]
  /\ error' = ""
  /\ UNCHANGED << variant, supported, normText, normOut, storage, crashed, interpretedTranscription, streams,
                  mediaRecorderRef, language, isIOS, showFilipinoWarning, isRecording, transcript, interimTranscript,
                  finalTranscript, recognitionRef, isStoppedManually, timeoutRef,
                  forceStopTimeoutRef, hasStartedSuccessfully, startAttempts, timers,
                  notes, noteSeq, quota, heard, stopRequested >>

\* recognition.onresult
onresult_App(i, ev) ==
  /\ variant = "App"
  /\ recs[i].st \in {"listening", "stopping"}
  /\ quota.results > 0
  /\ LET final   == ConcatWhere(ev, TRUE, <<" ">>)
         interim == ConcatWhere(ev, FALSE, <<>>)
     IN  /\ transcript' = IF final # <<>> THEN transcript \o final ELSE transcript
         /\ interimTranscript' = interim
         /\ UNCHANGED heard
  /\ recs' = [recs EXCEPT ![i] = AfterResult(variant, @, ev)]
  /\ quota' = [quota EXCEPT !.results = @ - 1]
  /\ UNCHANGED << variant, supported, normText, normOut, storage, crashed, interpretedTranscription, streams,
                  mediaRecorderRef, language, isIOS, showFilipinoWarning, isRecording, finalTranscript, error, recognitionRef,
                  isStoppedManually, timeoutRef, forceStopTimeoutRef,
                  hasStartedSuccessfully, startAttempts, timers, notes, noteSeq,
                  stopRequested >>

\* the message recognition.onerror shows for an error class, without its
\* pictograph ("": the error does not end the session)
ErrorMessage_App(e) ==
  CASE e \in {"not-allowed", "permission-denied"} -> "Microphone permission denied! Go to Chrome Settings, Site Settings, Microphone"
    [] e = "audio-capture" -> "Cannot access microphone! Close WhatsApp, Facebook, or other apps using the mic."
    [] e = "network" -> "No internet connection! Speech recognition needs internet."
    [] e = "service-not-allowed" -> "Speech recognition service not available. Check internet connection."
    [] OTHER -> ""

\* recognition.onerror
onerror_App(i, e) ==
  /\ variant = "App"
  /\ Listening(recs[i])
  /\ recs' = [recs EXCEPT ![i].st = "ending"]
  /\ IF ErrorMessage_App(e) # ""
       THEN /\ error' = ErrorMessage_App(e)
            /\ isRecording' = FALSE
            /\ isStoppedManually' = TRUE
       ELSE UNCHANGED << error, isRecording, isStoppedManually >>
  /\ UNCHANGED << variant, supported, normText, normOut, storage, crashed, interpretedTranscription, streams,
                  mediaRecorderRef, language, isIOS, showFilipinoWarning, transcript, interimTranscript, finalTranscript,
                  recognitionRef, timeoutRef, forceStopTimeoutRef,
                  hasStartedSuccessfully, startAttempts, timers, notes, noteSeq,
                  quota, heard, stopRequested >>

\* recognition.onend
onend_App(i) ==
  /\ variant = "App"
  /\ recs[i].st \in {"listening", "stopping", "ending"}
  /\ recs' = [recs EXCEPT ![i].st = "ended"]
  /\ interimTranscript' = <<>>
  /\ IF ~isStoppedManually /\ recs[i].capRec
       THEN /\ timeoutRef' = i
            /\ timers' = SetTimer(timers, Timer("restart", i))
            /\ UNCHANGED isRecording
       ELSE /\ isRecording' = FALSE
            /\ UNCHANGED << timeoutRef, timers >>
  /\ UNCHANGED << variant, supported, normText, normOut, storage, crashed, interpretedTranscription, streams,
                  mediaRecorderRef, language, isIOS, showFilipinoWarning, transcript, finalTranscript, error, recognitionRef,
                  isStoppedManually, forceStopTimeoutRef, hasStartedSuccessfully,
                  startAttempts, notes, noteSeq, quota, heard, stopRequested >>

\* a bug saveNote could have: the saved transcript stays on review
saveNote_App_KeepsText ==
  /\ variant = "App"
  /\ ~isRecording /\ transcript # <<>>
  /\ quota.notes > 0
  /\ IF trim(transcript) # <<>>
       THEN /\ notes' = addNote(notes, noteSeq, trim(transcript))
            /\ noteSeq' = noteSeq + 1
            /\ UNCHANGED << transcript, interimTranscript >>
       ELSE UNCHANGED << notes, noteSeq, transcript, interimTranscript >>
  /\ quota' = [quota EXCEPT !.notes = @ - 1]
  /\ UNCHANGED << variant, supported, normText, normOut, storage, crashed, interpretedTranscription, streams,
                  mediaRecorderRef, language, isIOS, showFilipinoWarning, isRecording, finalTranscript, error, recognitionRef,
                  isStoppedManually, timeoutRef, forceStopTimeoutRef,
                  hasStartedSuccessfully, startAttempts, recs, timers, heard,
                  stopRequested >>

\* click on Save Note (rendered when !isRecording && transcript), then
\* handleTranscriptComplete and addNote
saveNote_App ==
  /\ variant = "App"
  /\ ~isRecording /\ transcript # <<>>
  /\ quota.notes > 0
  /\ IF trim(transcript) # <<>>
       THEN /\ notes' = addNote(notes, noteSeq, trim(transcript))
            /\ noteSeq' = noteSeq + 1
            /\ transcript' = <<>>
            /\ interimTranscript' = <<>>
       ELSE UNCHANGED << notes, noteSeq, transcript, interimTranscript >>
  /\ quota' = [quota EXCEPT !.notes = @ - 1]
  /\ UNCHANGED << variant, supported, normText, normOut, storage, crashed, interpretedTranscription, streams,
                  mediaRecorderRef, language, isIOS, showFilipinoWarning, isRecording, finalTranscript, error, recognitionRef,
                  isStoppedManually, timeoutRef, forceStopTimeoutRef,
                  hasStartedSuccessfully, startAttempts, recs, timers, heard,
                  stopRequested >>

\* click on Discard
discardTranscript_App ==
  /\ variant = "App"
  /\ ~isRecording /\ transcript # <<>>
  /\ transcript' = <<>>
  /\ interimTranscript' = <<>>
  /\ UNCHANGED << variant, supported, normText, normOut, storage, crashed, interpretedTranscription, streams,
                  mediaRecorderRef, language, isIOS, showFilipinoWarning, isRecording, finalTranscript, error, recognitionRef,
                  isStoppedManually, timeoutRef, forceStopTimeoutRef,
                  hasStartedSuccessfully, startAttempts, recs, timers, notes, noteSeq,
                  quota, heard, stopRequested >>

----------------------------------------------------------------------------
(* Variant "V2": mic-test debug recorder, src/unnamed/part_000 (second     *)
(* application).  startRecording is async: it awaits getUserMedia, then    *)
(* 500 ms, then constructs and starts the recognition object.              *)

\* click on Start Recording, up to the first await
startRecording_V2 ==
  /\ variant = "V2"
  /\ supported
  /\ ~isRecording
  /\ quota.starts > 0
  /\ CopiesIn(Timer("getUserMedia", 0), timers) < quota.pending
  /\ error' = ""
  /\ transcript' = <<>>
  /\ interimTranscript' = <<>>
  /\ isStoppedManually' = FALSE
  /\ hasStartedSuccessfully' = FALSE
  /\ timers' = SetTimer(timers, Timer("getUserMedia", 0))
  /\ heard' = <<>>
  /\ stopRequested' = FALSE
  /\ quota' = [quota EXCEPT !.starts = @ - 1]
  /\ UNCHANGED << variant, supported, normText, normOut, storage, crashed, interpretedTranscription, streams,
                  mediaRecorderRef, language, isIOS, showFilipinoWarning, isRecording, finalTranscript, recognitionRef,
                  timeoutRef, forceStopTimeoutRef, startAttempts, recs, notes, noteSeq >>

\* testMicrophone settles: granted (then the 500 ms wait) or refused
testMicrophone_V2(granted) ==
  /\ variant = "V2"
  /\ BagIn(Timer("getUserMedia", 0), timers)
  /\ IF granted
       THEN /\ CopiesIn(Timer("delay", 0), timers) < quota.pending
            /\ timers' = SetTimer(DropTimer(timers, Timer("getUserMedia", 0)),
                                  Timer("delay", 0))
            /\ UNCHANGED error
       ELSE /\ timers' = DropTimer(timers, Timer("getUserMedia", 0))
            /\ error' = "Microphone access failed: Permission denied"
  /\ UNCHANGED << variant, supported, normText, normOut, storage, crashed, interpretedTranscription, streams,
                  mediaRecorderRef, language, isIOS, showFilipinoWarning, isRecording, transcript, interimTranscript,
                  finalTranscript, recognitionRef, isStoppedManually, timeoutRef,
                  forceStopTimeoutRef, hasStartedSuccessfully, startAttempts, recs,
                  notes, noteSeq, quota, heard, stopRequested >>

\* the 500 ms wait is over: initRecognition, recognitionRef, start()
initRecognition_V2 ==
  /\ variant = "V2"
  /\ BagIn(Timer("delay", 0), timers)
  /\ FreshInst # 0
  /\ timers' = DropTimer(timers, Timer("delay", 0))
  /\ recs' = [recs EXCEPT ![FreshInst] = [st |-> "starting", capRec |-> isRecording]]
  /\ recognitionRef' = FreshInst
  /\ UNCHANGED << variant, supported, normText, normOut, storage, crashed, interpretedTranscription, streams,
                  mediaRecorderRef, language, isIOS, showFilipinoWarning, isRecording, transcript, interimTranscript,
                  finalTranscript, error, isStoppedManually, timeoutRef,
                  forceStopTimeoutRef, hasStartedSuccessfully, startAttempts, notes,
                  noteSeq, quota, heard, stopRequested >>

\* click on Stop Recording
stopRecording_V2 ==
  /\ variant = "V2"
  /\ isRecording
  /\ isStoppedManually' = TRUE
  /\ hasStartedSuccessfully' = FALSE
  /\ recs' = CleanupRecs(recs)
  /\ recognitionRef' = 0
  /\ isRecording' = FALSE
  /\ interimTranscript' = <<>>
  /\ stopRequested' = TRUE
  /\ UNCHANGED << variant, supported, normText, normOut, storage, crashed, interpretedTranscription, streams,
                  mediaRecorderRef, language, isIOS, showFilipinoWarning, transcript, finalTranscript, error, timeoutRef,
                  forceStopTimeoutRef, startAttempts, timers, notes, noteSeq, quota,
                  heard >>

\* recognition.onstart
onstart_V2(i) ==
  /\ variant = "V2"
  /\ recs[i].st = "starting"
  /\ recs' = [recs EXCEPT ![i].st = "listening"]
  /\ hasStartedSuccessfully' = TRUE
  /\ error' = ""
  /\ isRecording' = TRUE
  /\ UNCHANGED << variant, supported, normText, normOut, storage, crashed, interpretedTranscription, streams,
                  mediaRecorderRef, language, isIOS, showFilipinoWarning, transcript, interimTranscript, finalTranscript,
                  recognitionRef, isStoppedManually, timeoutRef, forceStopTimeoutRef,
                  startAttempts, timers, notes, noteSeq, quota, heard,
                  stopRequested >>

\* recognition.onresult
onresult_V2(i, ev) ==
  /\ variant = "V2"
  /\ recs[i].st \in {"listening", "stopping"}
  /\ quota.results > 0
  /\ LET final   == ConcatWhere(ev, TRUE, <<" ">>)
         interim == ConcatWhere(ev, FALSE, <<>>)
     IN  /\ transcript' = IF final # <<>> THEN transcript \o final ELSE transcript
         /\ interimTranscript' = interim
         /\ UNCHANGED heard
  /\ recs' = [recs EXCEPT ![i] = AfterResult(variant, @, ev)]
  /\ quota' = [quota EXCEPT !.results = @ - 1]
  /\ UNCHANGED << variant, supported, normText, normOut, storage, crashed, interpretedTranscription, streams,
                  mediaRecorderRef, language, isIOS, showFilipinoWarning, isRecording, finalTranscript, error, recognitionRef,
                  isStoppedManually, timeoutRef, forceStopTimeoutRef,
                  hasStartedSuccessfully, startAttempts, timers, notes, noteSeq,
                  stopRequested >>

\* a bug onerror could have: a network error is only logged
ErrorMessage_V2_NetworkLogged(e) ==
  CASE e \in {"not-allowed", "permission-denied"} ->
         "Microphone permission denied. Please allow microphone access in Chrome settings."
    [] e = "audio-capture" ->
         "Cannot access microphone. Please check if another app is using it."
    [] OTHER -> ""

\* the message recognition.onerror shows for an error class ("": the error
\* does not end the session)
ErrorMessage_V2(e) ==
  CASE e \in {"not-allowed", "permission-denied"} -> "Microphone permission denied. Please allow microphone access in Chrome settings."
    [] e = "audio-capture" -> "Cannot access microphone. Please check if another app is using it."
    [] e = "network" -> "Network error. Speech recognition needs internet connection."
    [] OTHER -> ""

\* recognition.onerror
onerror_V2(i, e) ==
  /\ variant = "V2"
  /\ Listening(recs[i])
  /\ recs' = [recs EXCEPT ![i].st = "ending"]
  /\ IF ErrorMessage_V2(e) # ""
       THEN /\ error' = ErrorMessage_V2(e)
            /\ isRecording' = FALSE
            /\ isStoppedManually' = TRUE
       ELSE UNCHANGED << error, isRecording, isStoppedManually >>
  /\ UNCHANGED << variant, supported, normText, normOut, storage, crashed, interpretedTranscription, streams,
                  mediaRecorderRef, language, isIOS, showFilipinoWarning, transcript, interimTranscript, finalTranscript,
                  recognitionRef, timeoutRef, forceStopTimeoutRef,
                  hasStartedSuccessfully, startAttempts, timers, notes, noteSeq,
                  quota, heard, stopRequested >>

\* recognition.onend
onend_V2(i) ==
  /\ variant = "V2"
  /\ recs[i].st \in {"listening", "stopping", "ending"}
  /\ recs' = [recs EXCEPT ![i].st = "ended"]
  /\ interimTranscript' = <<>>
  /\ IF ~isStoppedManually /\ hasStartedSuccessfully
       THEN /\ CopiesIn(Timer("restart", i), timers) < quota.pending
            /\ timers' = SetTimer(timers, Timer("restart", i))
            /\ UNCHANGED isRecording
       ELSE /\ isRecording' = FALSE
            /\ UNCHANGED timers
  /\ UNCHANGED << variant, supported, normText, normOut, storage, crashed, interpretedTranscription, streams,
                  mediaRecorderRef, language, isIOS, showFilipinoWarning, transcript, finalTranscript, error, recognitionRef,
                  isStoppedManually, timeoutRef, forceStopTimeoutRef,
                  hasStartedSuccessfully, startAttempts, notes, noteSeq, quota,
                  heard, stopRequested >>

\* click on Save Note (rendered when !isRecording && transcript), then
\* handleTranscriptComplete and addNote
saveNote_V2 ==
  /\ variant = "V2"
  /\ ~isRecording /\ transcript # <<>>
  /\ quota.notes > 0
  /\ IF trim(transcript) # <<>>
       THEN /\ notes' = addNote(notes, noteSeq, trim(transcript))
            /\ noteSeq' = noteSeq + 1
            /\ transcript' = <<>>
            /\ interimTranscript' = <<>>
       ELSE UNCHANGED << notes, noteSeq, transcript, interimTranscript >>
  /\ quota' = [quota EXCEPT !.notes = @ - 1]
  /\ UNCHANGED << variant, supported, normText, normOut, storage, crashed, interpretedTranscription, streams,
                  mediaRecorderRef, language, isIOS, showFilipinoWarning, isRecording, finalTranscript, error, recognitionRef,
                  isStoppedManually, timeoutRef, forceStopTimeoutRef,
                  hasStartedSuccessfully, startAttempts, recs, timers, heard,
                  stopRequested >>

\* click on Discard
discardTranscript_V2 ==
  /\ variant = "V2"
  /\ ~isRecording /\ transcript # <<>>
  /\ transcript' = <<>>
  /\ interimTranscript' = <<>>
  /\ UNCHANGED << variant, supported, normText, normOut, storage, crashed, interpretedTranscription, streams,
                  mediaRecorderRef, language, isIOS, showFilipinoWarning, isRecording, finalTranscript, error, recognitionRef,
                  isStoppedManually, timeoutRef, forceStopTimeoutRef,
                  hasStartedSuccessfully, startAttempts, recs, timers, notes, noteSeq,
                  quota, heard, stopRequested >>

----------------------------------------------------------------------------
(* The restart timer armed by the onend of recognition object i fires      *)
(* (continuous recorders)                                                  *)

restartTimer(i) ==
  /\ BagIn(Timer("restart", i), timers)
  /\ timers' = DropTimer(timers, Timer("restart", i))
  /\ CASE variant = "P1" ->
            \* if (!isStoppedManually.current) try { recognition.start() } catch {}
            /\ recs' = IF ~isStoppedManually /\ ~StartThrows(recs[i])
                         THEN [recs EXCEPT ![i] = AfterStart(@)] ELSE recs
            /\ UNCHANGED isRecording
       [] variant = "App" ->
            \* 'already started' is logged; the object is otherwise started
            /\ recs' = IF recognitionRef # 0 /\ ~isStoppedManually
                            /\ ~StartThrows(recs[recognitionRef])
                         THEN [recs EXCEPT ![recognitionRef] = AfterStart(@)] ELSE recs
            /\ UNCHANGED isRecording
       [] variant = "V2" ->
            \* a failed start() ends the recording
            /\ recs' = IF recognitionRef # 0 /\ ~StartThrows(recs[recognitionRef])
                         THEN [recs EXCEPT ![recognitionRef] = AfterStart(@)] ELSE recs
            /\ isRecording' = IF recognitionRef # 0 /\ StartThrows(recs[recognitionRef])
                                THEN FALSE ELSE isRecording
  /\ UNCHANGED << variant, supported, normText, normOut, storage, crashed, interpretedTranscription, streams,
                  mediaRecorderRef, language, isIOS, showFilipinoWarning, transcript, interimTranscript, finalTranscript,
                  error, recognitionRef, isStoppedManually, timeoutRef,
                  forceStopTimeoutRef, hasStartedSuccessfully, startAttempts, notes,
                  noteSeq, quota, heard, stopRequested >>

Next_P1 ==
  \/ startRecording_P1
  \/ startTimer_P1
  \/ retryTimer_P1
  \/ stopRecording_P1
  \/ \E i \in Insts : onstart_P1(i)
  \/ \E i \in Insts : \E ev \in ResultEvents("P1") : onresult_P1(i, ev)
  \/ \E i \in Insts : \E e \in ErrorClasses : onerror_P1(i, e)
  \/ \E i \in Insts : onend_P1(i)
  \/ saveNote_P1
  \/ discard_P1

Next_App ==
  \/ startRecording_App
  \/ stopRecording_App
  \/ \E i \in Insts : onstart_App(i)
  \/ \E i \in Insts : \E ev \in ResultEvents("App") : onresult_App(i, ev)
  \/ \E i \in Insts : \E e \in ErrorClasses : onerror_App(i, e)
  \/ \E i \in Insts : onend_App(i)
  \/ saveNote_App
  \/ discardTranscript_App

Next_V2 ==
  \/ startRecording_V2
  \/ \E granted \in BOOLEAN : testMicrophone_V2(granted)
  \/ initRecognition_V2
  \/ stopRecording_V2
  \/ \E i \in Insts : onstart_V2(i)
  \/ \E i \in Insts : \E ev \in ResultEvents("V2") : onresult_V2(i, ev)
  \/ \E i \in Insts : \E e \in ErrorClasses : onerror_V2(i, e)
  \/ \E i \in Insts : onend_V2(i)
  \/ saveNote_V2
  \/ discardTranscript_V2

----------------------------------------------------------------------------
(* Variant "V1": MediaRecorder recorder, src/unnamed/part_000 (first        *)
(* application).  `supported` stands for the enabled Start button:         *)
(* mediaRecorderSupported && speechRecognitionSupported.                   *)

\* the `corrections` table of interpretText, in insertion order
corrections ==
  << <<<<"t","h","e","i","r">>, <<"t","h","e","r","e">>>>,
     <<<<"y","o","u","r">>, <<"y","o","u","'","r","e">>>>,
     <<<<"i","t","s">>, <<"i","t","'","s">>>>,
     <<<<"c","a","n","t">>, <<"c","a","n","'","t">>>>,
     <<<<"w","o","n","t">>, <<"w","o","n","'","t">>>>,
     <<<<"d","o","n","t">>, <<"d","o","n","'","t">>>>,
     <<<<"i","m">>, <<"I","'","m">>>>,
     <<<<"y","o","u","r","e">>, <<"y","o","u","'","r","e">>>>,
     <<<<"t","h","e","y","r","e">>, <<"t","h","e","y","'","r","e">>>>,
     <<<<"g","o","n","n","a">>, <<"g","o","i","n","g"," ","t","o">>>>,
     <<<<"w","a","n","n","a">>, <<"w","a","n","t"," ","t","o">>>>,
     <<<<"g","o","t","t","a">>, <<"g","o","t"," ","t","o">>>>,
     <<<<"k","i","n","d","a">>, <<"k","i","n","d"," ","o","f">>>>,
     <<<<"s","o","r","t","a">>, <<"s","o","r","t"," ","o","f">>>> >>

\* String.prototype.toUpperCase on one character
toUpperChar(c) ==
  IF \E u \in DOMAIN UpperToLower : UpperToLower[u] = c
    THEN CHOOSE u \in DOMAIN UpperToLower : UpperToLower[u] = c
    ELSE c

RECURSIVE ReplaceWord(_, _, _, _, _)
\* s.replace(new RegExp(`\\b${wrong}\\b`, flags), right) from position i on;
\* ci is the flag i of the regular expression
ReplaceWord(s, i, wrong, right, ci) ==
  LET n    == Len(wrong)
      here == /\ i + n - 1 <= Len(s)
              /\ (IF ci THEN toLowerCase(SubSeq(s, i, i + n - 1))
                        ELSE SubSeq(s, i, i + n - 1)) = wrong
              /\ WordBoundary(s, i) /\ WordBoundary(s, i + n)
  IN  IF i > Len(s) THEN <<>>
      ELSE IF here THEN right \o ReplaceWord(s, i + n, wrong, right, ci)
      ELSE << s[i] >> \o ReplaceWord(s, i + 1, wrong, right, ci)

RECURSIVE ApplyCorrections(_, _)
\* Object.keys(corrections).forEach(...) from the k-th key on
ApplyCorrections(s, k) ==
  IF k > Len(corrections) THEN s
  ELSE ApplyCorrections(ReplaceWord(s, 1, corrections[k][1], corrections[k][2], TRUE),
                        k + 1)

\* .replace(/(^\w|[.!?]\s+\w)/g, match => match.toUpperCase())
CapitalizeSentences(s) ==
  [k \in 1..Len(s) |->
     IF /\ IsWordChar(s[k])
        /\ \/ k = 1
           \/ \E j \in 1..(k - 2) :
                /\ s[j] \in {".", "!", "?"}
                /\ \A m \in (j + 1)..(k - 1) : IsSpace(s[m])
       THEN toUpperChar(s[k]) ELSE s[k]]

RECURSIVE CollapseSpaces(_, _)
\* .replace(/\s+/g, ' ') from position i on
CollapseSpaces(s, i) ==
  IF i > Len(s) THEN <<>>
  ELSE IF IsSpace(s[i])
         THEN (IF i > 1 /\ IsSpace(s[i-1]) THEN <<>> ELSE << " " >>)
                \o CollapseSpaces(s, i + 1)
         ELSE << s[i] >> \o CollapseSpaces(s, i + 1)

\* interpretText
interpretText(rawText) ==
  IF rawText = <<>> THEN <<>>
  ELSE LET spaced == CollapseSpaces(
                       CapitalizeSentences(ApplyCorrections(trim(rawText), 1)), 1)
           ended  == IF spaced # <<>> /\ spaced[Len(spaced)] \notin {".", "!", "?"}
                       THEN spaced \o << "." >> ELSE spaced
       IN  ReplaceWord(ended, 1, << "i" >>, << "I" >>, FALSE)

\* the MediaStream the next resolved getUserMedia yields; 0 when the bound
\* MaxInst is exhausted
FreshStream ==
  LET free == {i \in Insts : streams[i] = "none"}
  IN  IF free = {} THEN 0 ELSE Min(free)

\* recognition objects that can deliver no further event and are referenced
\* by nothing but possibly recognitionRef.current (ref) are dropped
Collect(rs, ref) ==
  [i \in Insts |-> IF i # ref /\ rs[i].st \in {"new", "ended"} THEN NoRec ELSE rs[i]]

\* useEffect([isRecording]) after a render with a changed isRecording: the
\* cleanup stops the current recognition object, the body constructs one
\* whose onend closes over the new value rec
EffectRecs_V1(rs, rec) ==
  LET stopped == IF recognitionRef # 0 THEN [rs EXCEPT ![recognitionRef] = AfterStop(@)]
                 ELSE rs
      kept    == Collect(stopped, 0)
      free    == {i \in Insts : kept[i].st = "none"}
  IN  IF free = {} THEN kept
      ELSE [kept EXCEPT ![Min(free)] = [st |-> "new", capRec |-> rec]]

\* the object recognitionRef.current names after that effect
EffectRef_V1(rs) ==
  LET now == {i \in Insts : rs[i].st = "new"}
  IN  IF now = {} THEN 0 ELSE Min(now)

\* click on Start Recording, up to the await of getUserMedia
startRecording_V1 ==
  /\ variant = "V1"
  /\ supported
  /\ ~isRecording
  /\ quota.starts > 0
  /\ CopiesIn(Timer("getUserMedia", 0), timers) < quota.pending
  /\ error' = ""
  /\ transcript' = <<>>
  /\ interpretedTranscription' = <<>>
  /\ interimTranscript' = <<>>
  /\ timers' = SetTimer(timers, Timer("getUserMedia", 0))
  /\ heard' = <<>>
  /\ stopRequested' = FALSE
  /\ quota' = [quota EXCEPT !.starts = @ - 1]
  /\ UNCHANGED << variant, supported, normText, normOut, storage, crashed, streams, mediaRecorderRef, language, isIOS,
                  showFilipinoWarning, isRecording, finalTranscript, recognitionRef,
                  isStoppedManually, timeoutRef, forceStopTimeoutRef,
                  hasStartedSuccessfully, startAttempts, recs, notes, noteSeq >>

\* getUserMedia resolves: the rest of the try block of startRecording, then
\* the effect of the render when isRecording has changed
granted_V1 ==
  /\ variant = "V1"
  /\ BagIn(Timer("getUserMedia", 0), timers)
  /\ FreshStream # 0
  /\ timers' = DropTimer(timers, Timer("getUserMedia", 0))
  /\ streams' = [streams EXCEPT ![FreshStream] = "live"]
  /\ mediaRecorderRef' = FreshStream
  /\ isRecording' = TRUE
  /\ LET throws  == recognitionRef # 0 /\ StartThrows(recs[recognitionRef])
         started == IF recognitionRef # 0 /\ ~throws
                      THEN [recs EXCEPT ![recognitionRef] = AfterStart(@)] ELSE recs
     IN  /\ error' = IF throws
                       THEN "Microphone access denied: Failed to execute 'start' on 'SpeechRecognition': recognition has already started."
                       ELSE error
         /\ recs' = IF isRecording THEN started ELSE EffectRecs_V1(started, TRUE)
         /\ recognitionRef' = IF isRecording THEN recognitionRef ELSE EffectRef_V1(recs')
         /\ recognitionRef' # 0
  /\ UNCHANGED << variant, supported, normText, normOut, storage, crashed, interpretedTranscription, language, isIOS,
                  showFilipinoWarning, transcript, interimTranscript, finalTranscript,
                  isStoppedManually, timeoutRef, forceStopTimeoutRef,
                  hasStartedSuccessfully, startAttempts, notes, noteSeq, quota, heard,
                  stopRequested >>

\* getUserMedia rejects: the catch block of startRecording
denied_V1 ==
  /\ variant = "V1"
  /\ BagIn(Timer("getUserMedia", 0), timers)
  /\ timers' = DropTimer(timers, Timer("getUserMedia", 0))
  /\ error' = "Microphone access denied: Permission denied"
  /\ UNCHANGED << variant, supported, normText, normOut, storage, crashed, interpretedTranscription, streams,
                  mediaRecorderRef, language, isIOS, showFilipinoWarning, isRecording,
                  transcript, interimTranscript, finalTranscript, recognitionRef,
                  isStoppedManually, timeoutRef, forceStopTimeoutRef,
                  hasStartedSuccessfully, startAttempts, recs, notes, noteSeq, quota,
                  heard, stopRequested >>

\* click on Stop Recording, and the effect of the re-render
stopRecording_V1 ==
  /\ variant = "V1"
  /\ isRecording
  /\ streams' = IF mediaRecorderRef # 0 /\ streams[mediaRecorderRef] = "live"
                  THEN [streams EXCEPT ![mediaRecorderRef] = "stopped"] ELSE streams
  /\ isRecording' = FALSE
  /\ interimTranscript' = <<>>
  /\ transcript' = transcript \o interimTranscript
  /\ interpretedTranscription' = interpretText(transcript \o interimTranscript)
  /\ recs' = EffectRecs_V1(recs, FALSE)
  /\ recognitionRef' = EffectRef_V1(recs')
  /\ recognitionRef' # 0
  /\ stopRequested' = TRUE
  /\ UNCHANGED << variant, supported, normText, normOut, storage, crashed, mediaRecorderRef, language, isIOS,
                  showFilipinoWarning, finalTranscript, error, isStoppedManually,
                  timeoutRef, forceStopTimeoutRef, hasStartedSuccessfully,
                  startAttempts, timers, notes, noteSeq, quota, heard >>

\* recognition.onresult
onresult_V1(i, ev) ==
  /\ variant = "V1"
  /\ recs[i].st \in {"listening", "stopping"}
  /\ quota.results > 0
  /\ transcript' = transcript \o ConcatWhere(ev, TRUE, << " " >>)
  /\ interimTranscript' = ConcatWhere(ev, FALSE, <<>>)
  /\ recs' = [recs EXCEPT ![i] = AfterResult(variant, @, ev)]
  /\ quota' = [quota EXCEPT !.results = @ - 1]
  /\ UNCHANGED << variant, supported, normText, normOut, storage, crashed, interpretedTranscription, streams,
                  mediaRecorderRef, language, isIOS, showFilipinoWarning, isRecording,
                  finalTranscript, error, recognitionRef, isStoppedManually,
                  timeoutRef, forceStopTimeoutRef, hasStartedSuccessfully,
                  startAttempts, timers, notes, noteSeq, heard, stopRequested >>

\* recognition.onerror
onerror_V1(i, e) ==
  /\ variant = "V1"
  /\ Listening(recs[i])
  /\ recs' = [recs EXCEPT ![i].st = "ending"]
  /\ error' = CASE e = "no-speech" -> error
                [] e = "not-allowed" -> "Recognition error: not-allowed"
                [] e = "permission-denied" -> "Recognition error: permission-denied"
                [] e = "audio-capture" -> "Recognition error: audio-capture"
                [] e = "network" -> "Recognition error: network"
                [] e = "service-not-allowed" -> "Recognition error: service-not-allowed"
  /\ UNCHANGED << variant, supported, normText, normOut, storage, crashed, interpretedTranscription, streams,
                  mediaRecorderRef, language, isIOS, showFilipinoWarning, isRecording,
                  transcript, interimTranscript, finalTranscript, recognitionRef,
                  isStoppedManually, timeoutRef, forceStopTimeoutRef,
                  hasStartedSuccessfully, startAttempts, timers, notes, noteSeq, quota,
                  heard, stopRequested >>

\* recognition.onend: if (isRecording) recognition.start(), with the
\* isRecording of the render that constructed the object
onend_V1(i) ==
  /\ variant = "V1"
  /\ recs[i].st \in {"listening", "stopping", "ending"}
  /\ recs' = Collect([recs EXCEPT ![i].st = IF recs[i].capRec THEN "starting" ELSE "ended"],
                     recognitionRef)
  /\ UNCHANGED << variant, supported, normText, normOut, storage, crashed, interpretedTranscription, streams,
                  mediaRecorderRef, language, isIOS, showFilipinoWarning, isRecording,
                  transcript, interimTranscript, finalTranscript, error,
                  recognitionRef, isStoppedManually, timeoutRef, forceStopTimeoutRef,
                  hasStartedSuccessfully, startAttempts, timers, notes, noteSeq, quota,
                  heard, stopRequested >>

\* useNotesMemory.addNote(text, type)
addNote_V1(ns, seq, text, type) ==
  << [id |-> seq + 1, text |-> text, type |-> type, createdAt |-> seq + 1] >> \o ns

\* click on Save Raw Version / Save Interpreted Version (rendered when
\* !isRecording && hasTranscription)
saveNote_V1(type) ==
  /\ variant = "V1"
  /\ ~isRecording
  /\ trim(transcript) # <<>> \/ trim(interpretedTranscription) # <<>>
  /\ quota.notes > 0
  /\ LET text == IF type = "raw" THEN transcript ELSE interpretedTranscription
     IN  IF trim(text) # <<>>
           THEN /\ notes' = addNote_V1(notes, noteSeq, text, type)
                /\ noteSeq' = noteSeq + 1
                /\ transcript' = <<>>
                /\ interpretedTranscription' = <<>>
                /\ interimTranscript' = <<>>
           ELSE UNCHANGED << notes, noteSeq, transcript, interpretedTranscription,
                             interimTranscript >>
  /\ quota' = [quota EXCEPT !.notes = @ - 1]
  /\ UNCHANGED << variant, supported, normText, normOut, storage, crashed, streams, mediaRecorderRef, language, isIOS,
                  showFilipinoWarning, isRecording, finalTranscript, error,
                  recognitionRef, isStoppedManually, timeoutRef, forceStopTimeoutRef,
                  hasStartedSuccessfully, startAttempts, recs, timers, heard,
                  stopRequested >>

Next_V1 ==
  \/ startRecording_V1
  \/ granted_V1
  \/ denied_V1
  \/ stopRecording_V1
  \/ \E i \in Insts : \E ev \in ResultEvents("V1") : onresult_V1(i, ev)
  \/ \E i \in Insts : \E e \in ErrorClasses : onerror_V1(i, e)
  \/ \E i \in Insts : onend_V1(i)
  \/ \E type \in {"raw", "interpreted"} : saveNote_V1(type)

----------------------------------------------------------------------------
(* The language selectors                                                  *)

Languages == {"en-US", "fil-PH"}

\* handleLanguageClick up to the state setters: the language selected and
\* the warning shown after a click on lang
LanguageAfterClick(lang) == IF lang = "fil-PH" /\ isIOS THEN "en-US" ELSE lang
WarningAfterClick(lang) == lang = "fil-PH" /\ isIOS

\* P3: click on a language button; a changed language re-runs the effect
\* on [isRecording, language], whose cleanup runs and whose body returns
\* since isRecording is false
handleLanguageClick_P3(lang) ==
  /\ variant = "P3"
  /\ IF isRecording
       THEN UNCHANGED vars
       ELSE /\ language' = LanguageAfterClick(lang)
            /\ showFilipinoWarning' = WarningAfterClick(lang)
            /\ IF language' # language
                 THEN /\ isStoppedManually' = TRUE
                      /\ timers' = CleanupTimers_P3(timers)
                      /\ recs' = CleanupRecs(recs)
                      /\ recognitionRef' = 0
                 ELSE UNCHANGED << isStoppedManually, timers, recs, recognitionRef >>
            /\ UNCHANGED << variant, supported, normText, normOut, storage, crashed, interpretedTranscription, streams,
                  mediaRecorderRef, isIOS, isRecording, transcript,
                            interimTranscript, finalTranscript, error, timeoutRef,
                            forceStopTimeoutRef, hasStartedSuccessfully, startAttempts,
                            notes, noteSeq, quota, heard, stopRequested >>

\* NL: the same handler; the cleanup clears the chunk timer only
handleLanguageClick_NL(lang) ==
  /\ variant = "NL"
  /\ IF isRecording
       THEN UNCHANGED vars
       ELSE /\ language' = LanguageAfterClick(lang)
            /\ showFilipinoWarning' = WarningAfterClick(lang)
            /\ IF language' # language
                 THEN /\ isStoppedManually' = TRUE
                      /\ timers' = ClearTimeout(timers, "chunk", timeoutRef)
                      /\ recs' = CleanupRecs(recs)
                      /\ recognitionRef' = 0
                 ELSE UNCHANGED << isStoppedManually, timers, recs, recognitionRef >>
            /\ UNCHANGED << variant, supported, normText, normOut, storage, crashed, interpretedTranscription, streams,
                  mediaRecorderRef, isIOS, isRecording, transcript,
                            interimTranscript, finalTranscript, error, timeoutRef,
                            forceStopTimeoutRef, hasStartedSuccessfully, startAttempts,
                            notes, noteSeq, quota, heard, stopRequested >>

\* V3: the same handler; the cleanup leaves isStoppedManually alone
handleLanguageClick_V3(lang) ==
  /\ variant = "V3"
  /\ IF isRecording
       THEN UNCHANGED vars
       ELSE /\ language' = LanguageAfterClick(lang)
            /\ showFilipinoWarning' = WarningAfterClick(lang)
            /\ IF language' # language
                 THEN /\ timers' = ClearTimeout(timers, "chunk", timeoutRef)
                      /\ recs' = CleanupRecs(recs)
                      /\ recognitionRef' = 0
                 ELSE UNCHANGED << timers, recs, recognitionRef >>
            /\ UNCHANGED << variant, supported, normText, normOut, storage, crashed, interpretedTranscription, streams,
                  mediaRecorderRef, isIOS, isRecording, transcript,
                            interimTranscript, finalTranscript, error,
                            isStoppedManually, timeoutRef, forceStopTimeoutRef,
                            hasStartedSuccessfully, startAttempts, notes, noteSeq,
                            quota, heard, stopRequested >>

\* a bug the P1 buttons could have: they are enabled while recording
LanguageButtonEnabled_P1_Always(lang) == lang = "fil-PH" => ~isIOS

\* P1: the language button for lang is enabled
\* (disabled={isRecording}, disabled={isRecording || isIOS})
LanguageButtonEnabled_P1(lang) == ~isRecording /\ (lang = "fil-PH" => ~isIOS)

\* P1: click on an enabled language button; a changed language re-runs the
\* effect on [language]: the cleanup stops the current recognition object
\* and the body constructs the next one
setLanguage_P1(lang) ==
  /\ variant = "P1"
  /\ LanguageButtonEnabled_P1(lang)
  /\ language' = lang
  /\ IF lang = language
       THEN UNCHANGED << isStoppedManually, recs, recognitionRef, error >>
       ELSE /\ isStoppedManually' = IF recognitionRef # 0 THEN TRUE ELSE isStoppedManually
            /\ IF ~supported
                 THEN /\ error' = "Speech recognition not supported. Use Chrome or Safari."
                      /\ recs' = CleanupRecs(recs)
                      /\ UNCHANGED recognitionRef
                 ELSE /\ FreshInst # 0
                      /\ recs' = [CleanupRecs(recs) EXCEPT ![FreshInst] =
                                    [st |-> "new", capRec |-> FALSE]]
                      /\ recognitionRef' = FreshInst
                      /\ UNCHANGED error
  /\ UNCHANGED << variant, supported, normText, normOut, storage, crashed, interpretedTranscription, streams,
                  mediaRecorderRef, isIOS, showFilipinoWarning, isRecording,
                  transcript, interimTranscript, finalTranscript, timeoutRef,
                  forceStopTimeoutRef, hasStartedSuccessfully, startAttempts, timers,
                  notes, noteSeq, quota, heard, stopRequested >>

\* a click on a language button of the mounted recorder
LanguageClick ==
  \E lang \in Languages :
    \/ handleLanguageClick_P3(lang)
    \/ handleLanguageClick_NL(lang)
    \/ handleLanguageClick_V3(lang)
    \/ setLanguage_P1(lang)

----------------------------------------------------------------------------
(* The notes store called directly (part_005 with the App of part_002, and *)
(* the hook and App of App.jsx)                                            *)

\* texts a caller may pass
StoreTexts ==
  { << " ", "h", "i", " " >>, << "a" >>, << >>, << " ", " " >>,
    << "\"", "\\", "\t", "n" >> }

\* a call addNote(text) of the hook
addNote_call(text) ==
  /\ variant \in {"NL", "App", "P3"}
  /\ ~crashed
  /\ quota.notes > 0
  /\ notes' = addNote(notes, noteSeq, text)
  /\ noteSeq' = noteSeq + 1
  /\ quota' = [quota EXCEPT !.notes = @ - 1]
  /\ storage' = saveEffect(variant, storage, notes')
  /\ UNCHANGED << variant, supported, normText, normOut, crashed, interpretedTranscription, streams,
                  mediaRecorderRef, language, isIOS, showFilipinoWarning, isRecording,
                  transcript, interimTranscript, finalTranscript, error,
                  recognitionRef, isStoppedManually, timeoutRef, forceStopTimeoutRef,
                  hasStartedSuccessfully, startAttempts, recs, timers, heard,
                  stopRequested >>

\* App.handleSave(text) / App.handleTranscriptComplete(text): if (text) addNote(text)
handleSave(text) ==
  /\ variant \in {"NL", "App"}
  /\ ~crashed
  /\ quota.notes > 0
  /\ notes' = IF text # <<>> THEN addNote(notes, noteSeq, text) ELSE notes
  /\ noteSeq' = IF text # <<>> THEN noteSeq + 1 ELSE noteSeq
  /\ quota' = [quota EXCEPT !.notes = @ - 1]
  /\ storage' = saveEffect(variant, storage, notes')
  /\ UNCHANGED << variant, supported, normText, normOut, crashed, interpretedTranscription, streams,
                  mediaRecorderRef, language, isIOS, showFilipinoWarning, isRecording,
                  transcript, interimTranscript, finalTranscript, error,
                  recognitionRef, isStoppedManually, timeoutRef, forceStopTimeoutRef,
                  hasStartedSuccessfully, startAttempts, recs, timers, heard,
                  stopRequested >>

\* the ids a caller may pass: those a run can hand out and one it cannot
NoteIds == 1..(MaxNotes + StoreNotes)

\* a call deleteNote(id) of the hook (the delete button of a note, or any caller)
deleteNote_call(id) ==
  /\ ~crashed
  /\ notes' = deleteNote(notes, id)
  /\ storage' = saveEffect(variant, storage, notes')
  /\ UNCHANGED << variant, supported, normText, normOut, crashed, interpretedTranscription, streams,
                  mediaRecorderRef, language, isIOS, showFilipinoWarning, isRecording,
                  transcript, interimTranscript, finalTranscript, error,
                  recognitionRef, isStoppedManually, timeoutRef, forceStopTimeoutRef,
                  hasStartedSuccessfully, startAttempts, recs, timers, noteSeq, quota,
                  heard, stopRequested >>


\* a bug handleClear could have: the notes are cleared whatever the answer
handleClear_NoConfirm(confirmed) ==
  /\ variant # "V1"
  /\ ~crashed
  /\ notes' = clearAllNotes(notes)
  /\ storage' = saveEffect(variant, storage, notes')
  /\ UNCHANGED << variant, supported, normText, normOut, crashed, interpretedTranscription, streams,
                  mediaRecorderRef, language, isIOS, showFilipinoWarning, isRecording,
                  transcript, interimTranscript, finalTranscript, error,
                  recognitionRef, isStoppedManually, timeoutRef, forceStopTimeoutRef,
                  hasStartedSuccessfully, startAttempts, recs, timers, noteSeq, quota,
                  heard, stopRequested >>

\* handleClear / handleClearAll: window.confirm(...) && clearAllNotes();
\* confirmed is the answer the user gives to the dialog
handleClear(confirmed) ==
  /\ variant # "V1"
  /\ ~crashed
  /\ notes' = IF confirmed THEN clearAllNotes(notes) ELSE notes
  /\ storage' = IF confirmed THEN saveEffect(variant, storage, notes') ELSE storage
  /\ UNCHANGED << variant, supported, normText, normOut, crashed, interpretedTranscription, streams,
                  mediaRecorderRef, language, isIOS, showFilipinoWarning, isRecording,
                  transcript, interimTranscript, finalTranscript, error,
                  recognitionRef, isStoppedManually, timeoutRef, forceStopTimeoutRef,
                  hasStartedSuccessfully, startAttempts, recs, timers, noteSeq, quota,
                  heard, stopRequested >>

\* the page is loaded again: every component state starts over, the hook
\* reads the stored item, and the effect writes the notes it read
reload ==
  /\ Persisted(variant)
  /\ notes' = loadNotes(storage).notes
  /\ crashed' = loadNotes(storage).crashed
  /\ storage' = IF crashed' THEN storage ELSE saveEffect(variant, storage, notes')
  /\ language' = "en-US"
  /\ showFilipinoWarning' = FALSE
  /\ isRecording' = FALSE
  /\ transcript' = <<>>
  /\ interimTranscript' = <<>>
  /\ finalTranscript' = <<>>
  /\ interpretedTranscription' = <<>>
  /\ mediaRecorderRef' = 0
  /\ streams' = [i \in Insts |-> "none"]
  /\ error' = ""
  /\ recognitionRef' = 0
  /\ isStoppedManually' = FALSE
  /\ timeoutRef' = 0
  /\ forceStopTimeoutRef' = 0
  /\ hasStartedSuccessfully' = FALSE
  /\ startAttempts' = 0
  /\ recs' = [i \in Insts |-> NoRec]
  /\ timers' = EmptyBag
  /\ heard' = <<>>
  /\ stopRequested' = FALSE
  /\ UNCHANGED << variant, supported, normText, normOut, isIOS, noteSeq, quota >>

----------------------------------------------------------------------------
(* normalizeNumbers applied to a text, and again to its own result         *)

\* the variants that have a normalizeNumbers
NormVariants == {"NL", "P3", "P1", "V3"}

\* the lookup table of a variant's normalizeNumbers
MapOf(v) ==
  CASE v = "NL" -> map_TU
    [] v = "P3" -> map_P3
    [] v = "P1" -> numberMap_P1
    [] v = "V3" -> map_V3

\* the words of a lookup table
Keys(table) == { p[1] : p \in table }

\* normalizeNumbers of variant v
normalizeNumbers(v, text) ==
  CASE v = "NL" -> normalizeNumbers_TU(text)
    [] v = "P3" -> normalizeNumbers_P3(text)
    [] v = "P1" -> normalizeNumbers_P1(text)
    [] v = "V3" -> normalizeNumbers_V3(text)

\* how often normalizeNumbers is applied to its own result
MaxApply == 2

\* texts normalizeNumbers is given: every word of every table, and sentences
NormTexts ==
  Keys(map_P3) \cup
  { << "i", " ", "h", "a", "v", "e", " ", "t", "w", "o", " ", "c", "a", "t", "s" >>,
    << "t", "w", "o", ",", " ", "t", "h", "r", "e", "e", "." >>,
    << "H", "e", "l", "l", "o" >>,
    << "T", "w", "o" >>,
    << "c", "o", "n", "s", "t", "r", "u", "c", "t", "o", "r" >>,
    << "t", "w", "e", "n", "t", "y", "-", "o", "n", "e" >>,
    << "t", "w", "e", "n", "t", "y", " ", "o", "n", "e" >>,
    << " ", "o", "n", "e", " " >>,
    << "a", "t", " ", "5", " ", "p", "m" >>,
    << >> }

\* one application of normalizeNumbers, to the text or to the last result
normalizeNumbers_call ==
  /\ variant \in NormVariants
  /\ Len(normOut) < MaxApply
  /\ normOut' = Append(normOut,
                       normalizeNumbers(variant,
                                        IF normOut = <<>> THEN normText
                                        ELSE normOut[Len(normOut)]))
  /\ UNCHANGED << variant, supported, normText, storage, crashed,
                  interpretedTranscription, streams, mediaRecorderRef, language, isIOS,
                  showFilipinoWarning, isRecording, transcript, interimTranscript,
                  finalTranscript, error, recognitionRef, isStoppedManually, timeoutRef,
                  forceStopTimeoutRef, hasStartedSuccessfully, startAttempts, recs,
                  timers, notes, noteSeq, quota, heard, stopRequested >>
----------------------------------------------------------------------------
(* Specifications                                                          *)

\* the state after the components are mounted, with the number of clicks
\* on Start Recording, of result events, of clicks on Save Note and of overlapping timers of one kind that
\* the environment provides; the mount effect of P1
\* constructs its one recognition object, those of P1, V2 and App report a
\* missing capability
InitRecorder(vs, ios, starts, results, saves, pending) ==
  /\ variant \in vs
  /\ supported \in BOOLEAN
  /\ language = "en-US"
  /\ isIOS \in ios
  /\ showFilipinoWarning = FALSE
  /\ isRecording = FALSE
  /\ transcript = <<>>
  /\ interimTranscript = <<>>
  /\ finalTranscript = <<>>
  /\ interpretedTranscription = <<>>
  /\ mediaRecorderRef = 0
  /\ streams = [i \in Insts |-> "none"]
  /\ error = CASE ~supported /\ variant = "P1" ->
                    "Speech recognition not supported. Use Chrome or Safari."
                [] ~supported /\ variant \in {"V2", "App"} ->
                    "Speech recognition is not supported on this browser. Please use Chrome."
                [] OTHER -> ""
  /\ recognitionRef = IF supported /\ variant \in {"P1", "V1"} THEN 1 ELSE 0
  /\ isStoppedManually = FALSE
  /\ timeoutRef = 0
  /\ forceStopTimeoutRef = 0
  /\ hasStartedSuccessfully = FALSE
  /\ startAttempts = 0
  /\ recs = [i \in Insts |->
               IF supported /\ variant \in {"P1", "V1"} /\ i = 1
                 THEN [st |-> "new", capRec |-> FALSE] ELSE NoRec]
  /\ timers = EmptyBag
  /\ quota = [starts |-> starts, results |-> results, notes |-> saves,
              pending |-> pending]
  /\ heard = <<>>
  /\ stopRequested = FALSE

\* the state after the App is mounted in a browser that stores no notes
InitOn(vs, ios, starts, results, saves, pending) ==
  /\ InitRecorder(vs, ios, starts, results, saves, pending)
  /\ notes = <<>>
  /\ noteSeq = 0
  /\ storage = saveEffect(variant, NoItem, notes)
  /\ crashed = FALSE
  /\ normText = <<>>
  /\ normOut = <<>>

\* the same on a device that is not an iPad, iPhone or iPod
InitOf(vs, starts, results, saves, pending) ==
  InitOn(vs, {FALSE}, starts, results, saves, pending)

Init == InitOf(Variants, MaxStarts, MaxResults, MaxNotes, MaxPending)

Next ==
  \/ Next_P3
  \/ Next_NL
  \/ Next_V3
  \/ Next_P1
  \/ Next_App
  \/ Next_V2
  \/ Next_V1
  \/ \E i \in Insts : onstart_chunk(i)
  \/ \E i \in Insts : restartTimer(i)
  \/ \E id \in NoteIds : deleteNote_call(id)

\* all recorder variants
Spec == Init /\ [][Next]_vars

\* the mic-test debug recorder alone
InitV2 == InitOf({"V2"}, FewStarts, FewResults, FewNotes, FewPending)

NextV2 ==
  \/ Next_V2
  \/ \E i \in Insts : restartTimer(i)

SpecV2 == InitV2 /\ [][NextV2]_vars

\* the Recorder of the component tree alone
InitNL == InitOf({"NL"}, FewStarts, FewResults, FewNotes, FewPending)

NextNL ==
  \/ Next_NL
  \/ \E i \in Insts : onstart_chunk(i)

SpecNL == InitNL /\ [][NextNL]_vars

\* the Android debug recorder alone; its restart timer is never armed (the
\* guard of onend reads the isRecording of the render that called
\* initRecognition), so restartTimer is no step of it
InitApp == InitOf({"App"}, FewStarts, FewResults, FewNotes, FewPending)

NextApp == Next_App

SpecApp == InitApp /\ [][NextApp]_vars

\* the continuous recorder alone
MinResults == 1

InitP1 == InitOf({"P1"}, MaxStarts, MinResults, FewNotes, FewPending)

NextP1 ==
  \/ Next_P1
  \/ \E i \in Insts : restartTimer(i)

SpecP1 == InitP1 /\ [][NextP1]_vars

\* the recorders with a language selector, on any device
LanguageVariants == {"P3", "P1", "NL", "V3"}

InitLang == InitOn(LanguageVariants, BOOLEAN, MaxStarts, MinResults, FewNotes, FewPending)

NextLang ==
  \/ Next_P3
  \/ Next_NL
  \/ Next_V3
  \/ Next_P1
  \/ \E i \in Insts : onstart_chunk(i)
  \/ \E i \in Insts : restartTimer(i)
  \/ LanguageClick

SpecLang == InitLang /\ [][NextLang]_vars

\* the MediaRecorder recorder alone
InitV1 == InitOf({"V1"}, MaxStarts, FewResults, FewNotes, MaxPending)

NextV1 ==
  \/ Next_V1
  \/ \E i \in Insts : onstart_chunk(i)

SpecV1 == InitV1 /\ [][NextV1]_vars

\* the notes store under direct calls
InitStore == InitOf({"NL", "App"}, FewStarts, FewResults, StoreNotes, FewPending)

NextStore ==
  \/ \E text \in StoreTexts : addNote_call(text) \/ handleSave(text)
  \/ \E id \in NoteIds : deleteNote_call(id)
  \/ \E confirmed \in BOOLEAN : handleClear(confirmed)

SpecStore == InitStore /\ [][NextStore]_vars


\* The persisted store: the App is mounted in a browser whose localStorage
\* holds any of StoredItems, then notes are added, deleted and cleared and
\* the page is loaded again.
StoredNote == [id |-> 1, text |-> << "o", "\"", "k" >>, createdAt |-> 1]

StoredItems ==
  { NoItem, Item(<<>>), Item(<< "[", "]" >>), Item(<< " ", "[", " ", "]", "\n" >>),
    Item(stringifyNotes(<< StoredNote >>)),
    Item(<< "{", "b", "a", "d" >>), Item(<< "[", "o", "b", "j", "e", "c", "t" >>),
    Item(<< "n", "u", "l", "l" >>), Item(<< "{", "}" >>), Item(<< "5" >>) }

InitPersist ==
  /\ InitRecorder({"P3", "NL"}, {FALSE}, FewStarts, FewResults, StoreNotes, FewPending)
  /\ \E st \in StoredItems :
       /\ notes = loadNotes(st).notes
       /\ crashed = loadNotes(st).crashed
       /\ storage = IF crashed THEN st ELSE saveEffect(variant, st, notes)
  /\ noteSeq = Len(notes)
  /\ normText = <<>>
  /\ normOut = <<>>

NextPersist ==
  \/ \E text \in StoreTexts : addNote_call(text) \/ handleSave(text)
  \/ \E id \in NoteIds : deleteNote_call(id)
  \/ \E confirmed \in BOOLEAN : handleClear(confirmed)
  \/ reload

SpecPersist == InitPersist /\ [][NextPersist]_vars

\* normalizeNumbers as a function: any variant, any text of NormTexts
InitNorm ==
  /\ InitRecorder(NormVariants, {FALSE}, FewStarts, FewResults, FewNotes, FewPending)
  /\ notes = <<>>
  /\ noteSeq = 0
  /\ storage = saveEffect(variant, NoItem, notes)
  /\ crashed = FALSE
  /\ normText \in NormTexts
  /\ normOut = <<>>

NextNorm == normalizeNumbers_call

SpecNorm == InitNorm /\ [][NextNorm]_vars
----------------------------------------------------------------------------
(* Claims                                                                  *)

RECURSIVE Words(_)
\* the words of a text: its maximal runs of characters other than spaces
Words(s) ==
  IF s = <<>> THEN {}
  ELSE IF IsSpace(Head(s)) THEN Words(Tail(s))
  ELSE LET n == IF \E k \in 1..Len(s) : IsSpace(s[k])
                  THEN Min({k \in 1..Len(s) : IsSpace(s[k])}) - 1
                  ELSE Len(s)
       IN  {SubSeq(s, 1, n)} \cup Words(SubSeq(s, n + 1, Len(s)))

\* the interim fragments the recognizer delivers
InterimFragments ==
  UNION {{ev[k].transcript : k \in {j \in 1..Len(ev) : ~ev[j].isFinal}} :
           ev \in UNION {ResultEvents(v) : v \in Variants}}

\* C1: in the chunked recorder P3 and the continuous recorder P1, from the
\* call of stopRecording until the next call of startRecording, isRecording
\* stays false and neither an end handler's chunk timer nor a restart timer
\* starts a recognition object
C1_StoppedStaysStopped ==
  [][(variant \in {"P3", "P1"} /\ stopRequested /\ stopRequested')
       => /\ ~isRecording'
          /\ \A i \in Insts :
               (restartTimer(i) \/ startNewChunk_P3(i)) => recs' = recs]_vars

\* C2: in the chunked recorders P3 and V3 at most one recognition object is
\* listening at any time
C2_OneListener ==
  variant \in {"P3", "V3"} => Cardinality({i \in Insts : Listening(recs[i])}) <= 1

\* C3: in the Android debug recorder, an end event delivered while recording,
\* with stopRecording not called and no fatal error, schedules the restart
\* timer
C3_EndSchedulesRestart ==
  [][\A i \in Insts :
       (onend_App(i) /\ isRecording /\ ~isStoppedManually /\ error = "")
         => BagIn(Timer("restart", i), timers')]_vars

\* C4: in the chunked recorders P3 and NL a 'not-allowed' error delivered
\* while recording sets isRecording to false and a non-empty error state
C4_NotAllowedStops ==
  [][\A i \in Insts :
       ((onerror_P3(i, "not-allowed") \/ onerror_NL(i, "not-allowed")) /\ isRecording)
         => (~isRecording' /\ error' # "")]_vars

\* C5: in the continuous recorder P1 a 'no-speech' error delivered while
\* recording leaves isRecording true and the error message empty
C5_NoSpeechIgnored ==
  [][\A i \in Insts :
       (onerror_P1(i, "no-speech") /\ isRecording /\ error = "")
         => (isRecording' /\ error' = "")]_vars

\* the error classes that end a session of the mic-test debug recorder
FatalClasses == {"not-allowed", "permission-denied", "audio-capture", "network"}

\* C6: in the mic-test debug recorder V2 an error of a fatal class sets a
\* non-empty error message, isRecording false and the manual-stop flag, and
\* an end event delivered while that flag stands schedules no restart and
\* leaves isRecording false; a 'no-speech' error changes none of error,
\* isRecording and the manual-stop flag
C6_FatalErrorsEndSession ==
  [][\A i \in Insts :
       /\ \A e \in FatalClasses :
            onerror_V2(i, e) => (error' # "" /\ ~isRecording' /\ isStoppedManually')
       /\ onerror_V2(i, "no-speech")
            => UNCHANGED << error, isRecording, isStoppedManually >>
       /\ (onend_V2(i) /\ isStoppedManually)
            => (timers' = timers /\ ~isRecording')]_vars

\* a network error ended the session, its end event was delivered and no
\* restart is pending
C6_Witness ==
  /\ variant = "V2"
  /\ error = "Network error. Speech recognition needs internet connection."
  /\ isStoppedManually /\ ~isRecording
  /\ \E i \in Insts : recs[i].st = "ended"
  /\ \A i \in Insts : ~BagIn(Timer("restart", i), timers)
  /\ transcript # <<>>

\* C7: in the chunked recorders NL and P3, stopRecording called with a
\* non-empty interim text exposes for saving the final text followed by that
\* interim text, trimmed
C7_InterimFolded ==
  [][/\ (stopRecording_NL /\ interimTranscript # <<>>)
          => finalTranscript' = trim(transcript \o interimTranscript)
     /\ (stopRecording_P3 /\ interimTranscript # <<>>)
          => trim(transcript' \o interimTranscript')
               = trim(transcript \o interimTranscript)]_vars

RECURSIVE JoinNormalized(_)
\* the normalized fragments in order, separated by single spaces
JoinNormalized(fs) ==
  IF fs = <<>> THEN <<>>
  ELSE IF Len(fs) = 1 THEN normalizeNumbers_TU(trim(fs[1]))
  ELSE normalizeNumbers_TU(trim(fs[1])) \o <<" ">> \o JoinNormalized(Tail(fs))

\* C8: in the Recorder NL, stopRecording after result events finalizes the
\* in-order concatenation of the normalized final fragments, separated by
\* single spaces and trimmed, and empties the interim text
C8_FinalizedText ==
  [][stopRecording_NL
       => (finalTranscript' = JoinNormalized(heard) /\ interimTranscript' = <<>>)]_vars

\* the fragments 'hello ' and 'Two' were finalized as 'hello 2'; another
\* result may have arrived since
C8_Witness ==
  /\ variant = "NL"
  /\ stopRequested
  /\ Len(heard) >= 2
  /\ finalTranscript = <<"h","e","l","l","o"," ","2">>
  /\ interimTranscript = <<>>

\* C9: in the Android debug recorder and the chunked recorder P3, a result
\* event delivered by a stopping recognizer after stopRecording changes
\* neither the transcript nor the interim text
C9_ResultAfterStopIgnored ==
  [][\A i \in Insts : \A ev \in ResultEvents("P3") \cup ResultEvents("App") :
       ((onresult_App(i, ev) \/ onresult_P3(i, ev))
          /\ stopRequested /\ recs[i].st = "stopping")
         => UNCHANGED << transcript, interimTranscript >>]_vars

\* C10: in the recorders P3 and P1 no saved Note contains an interim
\* fragment
C10_NotesHoldFinalText ==
  variant \in {"P3", "P1"}
    => \A k \in 1..Len(notes) : Words(notes[k].text) \cap InterimFragments = {}

\* C11: in the chunked recorders P3 and NL, from stopRecording until the next
\* startRecording no chunk (restart-delay) timer and no force-stop timer is
\* pending
C11_NoTimerAfterStop ==
  (variant \in {"P3", "NL"} /\ stopRequested)
    => \A i \in Insts : /\ ~BagIn(Timer("chunk", i), timers)
                        /\ ~BagIn(Timer("force", i), timers)

\* a call of startRecording in any recorder variant
StartRecordingStep ==
  \/ startRecording_P3 \/ startRecording_NL \/ startRecording_V3
  \/ startRecording_P1 \/ startRecording_App \/ startRecording_V2

C13_StartStopEmpty ==
  (variant = "App" /\ stopRequested /\ quota.results = FewResults)
    => (transcript = <<>> /\ interimTranscript = <<>> /\ ~isRecording)

\* stopRecording was called, no result was delivered and the end event of
\* the stopped recognizer has been delivered
C13_Witness ==
  /\ variant = "App" /\ stopRequested /\ quota.results = FewResults
  /\ recognitionRef = 0
  /\ \E i \in Insts : recs[i].st = "ended"
  /\ transcript = <<>> /\ interimTranscript = <<>> /\ ~isRecording

\* C14: in the Recorder NL a start requested without the speech-recognition
\* capability ends with isRecording false
C14_UnsupportedStartInactive ==
  [][(startRecording_NL /\ ~supported) => ~isRecording']_vars

\* C15: in the Android debug recorder, once a fatal error and the end event
\* that follows it have been delivered, isRecording is false, no restart
\* timer is pending, recognitionRef holds no recognition object and none is
\* listening
C15_FatalLeavesIdle ==
  [][\A i \in Insts :
       (onend_App(i) /\ recs[i].st = "ending" /\ error # ""
          /\ isStoppedManually /\ ~stopRequested)
         => /\ ~isRecording'
            /\ \A j \in Insts : ~BagIn(Timer("restart", j), timers')
            /\ recognitionRef' = 0
            /\ \A j \in Insts : ~Listening(recs'[j])]_vars

\* C16: in the continuous recorder P1 an end event schedules a restart only
\* as one of at most 15 consecutive attempts; the end event after 15
\* consecutive attempts sets an error, sets isRecording false and schedules
\* nothing; startAttempts grows by one per such end event and is reset to 0
\* by onstart and by startRecording and by nothing else
C16_RestartsBounded ==
  [][/\ \A i \in Insts :
          /\ (onend_P1(i) /\ ~isStoppedManually /\ startAttempts < 15)
               => /\ startAttempts' = startAttempts + 1
                  /\ timers' = SetTimer(timers, Timer("restart", i))
                  /\ UNCHANGED << error, isRecording >>
          /\ (onend_P1(i) /\ ~isStoppedManually /\ startAttempts >= 15)
               => (error' # "" /\ ~isRecording' /\ timers' = timers)
          /\ onstart_P1(i) => startAttempts' = 0
     /\ startRecording_P1 => startAttempts' = 0
     /\ startAttempts' < startAttempts
          => (startRecording_P1 \/ \E i \in Insts : onstart_P1(i))]_vars

\* fifteen restarts in a row failed and the sixteenth end event gave up
C16_Witness ==
  /\ variant = "P1"
  /\ startAttempts = 16
  /\ error = "Speech recognition keeps stopping. Try again or use a different browser."
  /\ ~isRecording /\ ~isStoppedManually
  /\ timers = EmptyBag

\* C17: in the recorders with a language selector (P3, P1, NL, V3) no step
\* taken while isRecording is true changes the selected language, and a
\* click on a language button while recording changes nothing at all
C17_LanguageFixedWhileRecording ==
  [][/\ isRecording => language' = language
     /\ \A lang \in Languages :
          (isRecording /\ (\/ handleLanguageClick_P3(lang)
                           \/ handleLanguageClick_NL(lang)
                           \/ handleLanguageClick_V3(lang)
                           \/ setLanguage_P1(lang)))
            => UNCHANGED vars]_vars

\* a recording in the language selected before it was started
C17_Witness ==
  /\ variant \in LanguageVariants
  /\ language = "fil-PH"
  /\ isRecording
  /\ recognitionRef # 0 /\ recs[recognitionRef].st = "listening"

\* C18: in the MediaRecorder recorder V1, right after stopRecording no
\* stream that getUserMedia has returned to an earlier startRecording call
\* has a live track, also when two startRecording calls overlapped
C18_StreamsReleased ==
  [][stopRecording_V1 => \A i \in Insts : streams'[i] # "live"]_vars

C20_BlankTextRejected ==
  [][\A t \in StoreTexts :
       ((addNote_call(t) \/ handleSave(t)) /\ trim(t) = <<>>)
         => notes' = notes]_vars

RECURSIVE Others(_, _)
\* the Notes of ns whose id is not id, in the order of ns
Others(ns, id) ==
  IF ns = <<>> THEN <<>>
  ELSE (IF Head(ns).id = id THEN <<>> ELSE << Head(ns) >>) \o Others(Tail(ns), id)

\* C21: deleteNote(id) leaves exactly the Notes with another id, in their
\* previous relative order; with no Note of that id the collection is unchanged
C21_DeleteKeepsOthers ==
  [][\A id \in NoteIds :
       deleteNote_call(id)
         => /\ notes' = Others(notes, id)
            /\ \A k \in 1..Len(notes') : notes'[k].id # id
            /\ (\A k \in 1..Len(notes) : notes[k].id # id) => notes' = notes]_vars

\* the middle one of three notes was deleted
C21_Witness ==
  /\ Len(notes) = 2
  /\ noteSeq = 3
  /\ notes[1].id = 3
  /\ notes[2].id = 1

\* C22: in the persisted store no initialization fails: whatever item is
\* stored under 'voiceNotes' (none, or text that is not the JSON of a notes
\* array), the App is mounted with an empty collection and nothing is thrown
C22_CorruptFallsBack ==
  Persisted(variant)
    => /\ ~crashed
       /\ (~storage.present \/ ~JSONparse(storage.value).ok
             \/ JSONparse(storage.value).val.t # "arr") => notes = <<>>

\* C23: in the persisted store the item stored under 'voiceNotes' is the
\* serialization of the current notes, in their order, after every addNote,
\* deleteNote and clearAllNotes
C23_StorageMirrorsNotes ==
  (Persisted(variant) /\ ~crashed)
    => /\ storage = Item(stringifyNotes(notes))
       /\ JSONparse(storage.value).ok
       /\ NotesOf(JSONparse(storage.value).val) = notes

\* three notes were added and the second deleted, and the item holds the two left
C23_Witness ==
  /\ variant = "NL"
  /\ noteSeq = 3
  /\ Len(notes) = 2
  /\ notes[2].id = 1
  /\ storage = Item(stringifyNotes(notes))
  /\ Len(storage.value) > 2

\* C24: loading the page again yields the notes the store held, with the
\* same id, text and createdAt, in the same order
C24_RoundTrip ==
  [][(reload /\ ~crashed) => (~crashed' /\ notes' = notes)]_vars

\* the store holds two notes, one of them with characters that JSON escapes,
\* and the stored item reads back as these notes
C24_Witness ==
  /\ variant = "NL"
  /\ ~crashed
  /\ Len(notes) = 2
  /\ \E k \in 1..2 : \E j \in 1..Len(notes[k].text) : notes[k].text[j] \in {"\"", "\\", "\t"}
  /\ loadNotes(storage).notes = notes

\* C25: handleClear / handleClearAll leaves the notes unchanged when the
\* confirmation is declined and leaves them empty when it is accepted
C25_ClearGated ==
  [][\A confirmed \in BOOLEAN :
       handleClear(confirmed)
         => notes' = IF confirmed THEN <<>> ELSE notes]_vars

\* every note handed out was created and the collection is empty again
C25_Witness ==
  /\ variant \in {"NL", "App"}
  /\ noteSeq = StoreNotes
  /\ notes = <<>>

RECURSIVE Tokens(_)
\* the whitespace-delimited words of a text
Tokens(s) ==
  IF s = <<>> THEN <<>>
  ELSE IF IsSpace(Head(s)) THEN Tokens(Tail(s))
  ELSE LET stops == { k \in 1..Len(s) : IsSpace(s[k]) }
           e == IF stops = {} THEN Len(s) + 1 ELSE Min(stops)
       IN  << SubSeq(s, 1, e - 1) >> \o Tokens(SubSeq(s, e, Len(s)))

\* the digits the table gives for a word
DigitsOf(table, word) == (CHOOSE p \in table : p[1] = word)[2]

\* C26: normalizeNumbers of utils/textUtils replaces every whitespace-delimited
\* word that is, case-insensitively, a word of the table by its digits,
\* wherever the word stands in the text
C26_VocabularyWordsReplaced ==
  (variant = "NL" /\ Len(normOut) >= 1)
    => LET in  == Tokens(normText)
           out == Tokens(normOut[1])
       IN  \A k \in 1..Len(in) :
             toLowerCase(in[k]) \in Keys(map_TU)
               => /\ k <= Len(out)
                  /\ out[k] = DigitsOf(map_TU, toLowerCase(in[k]))

\* C27: every whitespace-delimited token that is not a word of the table,
\* with or without punctuation around it, is in the result as it was in the text
C27_OtherTokensVerbatim ==
  (variant \in NormVariants /\ Len(normOut) >= 1)
    => LET in  == Tokens(normText)
           out == Tokens(normOut[1])
       IN  \A k \in 1..Len(in) :
             StripPunctuation(toLowerCase(in[k])) \notin Keys(MapOf(variant))
               => /\ k <= Len(out)
                  /\ out[k] = in[k]

\* C28: normalizeNumbers applied to its own result returns that result
C28_Idempotent ==
  (variant \in NormVariants /\ Len(normOut) >= 2) => normOut[2] = normOut[1]

\* C29: normalizeNumbers of the language-dependent chunked recorder maps every
\* word of its table to the table's digits, and returns a hyphenated word
\* that is not in the table as it was
C29_TableWordsAndHyphens ==
  (variant = "V3" /\ Len(normOut) >= 1)
    => /\ normText \in Keys(map_V3) => normOut[1] = DigitsOf(map_V3, normText)
       /\ (/\ normText \notin Keys(map_V3)
           /\ (\E k \in 1..Len(normText) : normText[k] = "-")
           /\ (\A j \in 1..Len(normText) : ~IsSpace(normText[j])))
            => normOut[1] = normText

\* C30: in every variant every Note of the collection has a text that is not
\* empty and has no whitespace at its start or its end
C30_NoteTextsTrimmed ==
  \A k \in 1..Len(notes) :
    /\ notes[k].text # <<>>
    /\ trim(notes[k].text) = notes[k].text

\* a start requested by startRecording has not reached the recognizer yet
StartInProgress ==
  \E k \in {"start", "retry"} : BagIn(Timer(k, 0), timers)

\* C31: in the continuous recorder and the Android debug recorder, whenever
\* isRecording is false and no start is in progress, no recognition instance
\* is starting or listening and no restart is scheduled
C31_FlagAgreesWithRecognizer ==
  (variant \in {"P1", "App"} /\ ~isRecording /\ ~StartInProgress)
    => /\ \A i \in Insts : ~Listening(recs[i])
       /\ \A i \in Insts : ~BagIn(Timer("restart", i), timers)

\* C32: in the MediaRecorder recorder, when startRecording has started the
\* recognizer and set isRecording, some recognition instance is starting or
\* listening, or will be started again by its end event: the instance is not
\* stopped for good by the effect that runs when isRecording becomes true
C32_StartedStaysStarted ==
  [][granted_V1
       => \E i \in Insts :
            \/ Listening(recs'[i])
            \/ Started(recs'[i]) /\ recs'[i].capRec]_vars

\* C33: the 60 s force-stop timer armed with a chunk stops that chunk's
\* recognition instance only: no other instance is changed when it fires
C33_ForceStopOwnChunk ==
  [][\A i \in Insts :
       (forceStop_P3(i) \/ forceStop_NL(i))
         => \A j \in Insts \ {i} : recs'[j] = recs[j]]_vars

\* C34: in the mic-test debug recorder every recognition instance that is
\* starting or listening is the one recognitionRef holds, so there is at most
\* one and the next stopRecording stops it
C34_OneStartedInstance ==
  variant = "V2"
    => \A i \in Insts : Listening(recs[i]) => i = recognitionRef

\* C35: in the continuous recorder a restart timer of the previous session
\* (armed before startRecording: no end event has counted an attempt since)
\* that fires while the 300 ms timer of the new startRecording is pending
\* does not start the recognizer: start() is left to the session's own timer
C35_OneStartPerSession ==
  [][\A i \in Insts :
       (/\ variant = "P1"
        /\ restartTimer(i)
        /\ BagIn(Timer("start", 0), timers)
        /\ startAttempts = 0)
         => recs' = recs]_vars

\* the Save button of the variant's recorder is rendered
SaveOffered ==
  /\ ~isRecording
  /\ CASE variant = "NL" -> finalTranscript # <<>>
       [] variant = "V1" -> trim(transcript) # <<>> \/ trim(interpretedTranscription) # <<>>
       [] OTHER -> transcript # <<>>

\* a click on Save in any variant
SaveStep ==
  \/ saveNote_P3 \/ saveNote_NL \/ saveNote_V3 \/ saveNote_P1 \/ saveNote_App
  \/ saveNote_V2 \/ \E type \in {"raw", "interpreted"} : saveNote_V1(type)

DiscardStep ==
  \/ discard_P3 \/ discard_NL \/ discard_V3 \/ discard_P1
  \/ discardTranscript_App \/ discardTranscript_V2

\* C37: discard empties the accumulated transcript, the finalized transcript
\* and the interim text, and leaves the notes collection, the selected
\* language and the recording flag unchanged, in every recorder variant.
C37_DiscardEmptiesText ==
  [][DiscardStep
       => /\ transcript' = <<>>
          /\ finalTranscript' = <<>>
          /\ interimTranscript' = <<>>
          /\ notes' = notes
          /\ language' = language
          /\ isRecording' = isRecording]_vars
====
